---------------------------- MODULE Spec2Model ----------------------------
(***************************************************************************)
(* Model of the MIFARE DESFire client core (client/src/mifare/desfirecore.c) *)
(*                                                                         *)
(* Three layers are modelled, bottom up:                                   *)
(*   - the transport wrappers DESFIRESendRaw / DESFIRESendApduEx,          *)
(*   - the frame exchanges DesfireExchangeNative / DesfireExchangeISONative *)
(*     / DesfireExchangeISO / DesfireExchangeEx with TX and RX chaining,   *)
(*   - the session operations on a DesfireContext (select, authenticate,   *)
(*     change key, ISO select, typed commands).                            *)
(*                                                                         *)
(* The card and the reader hardware are the environment: every transport   *)
(* call consumes the next reply of a "script", a finite sequence of        *)
(* replies [res, raw]; when the script is used up the transport times out. *)
(***************************************************************************)
EXTENDS Integers, Sequences, FiniteSets, TLC

VARIABLES ctx, hist, last, xr, tr, kr, fr, ar, lr

vars == <<ctx, hist, last, xr, tr, kr, fr, ar, lr>>

(***************************************************************************)
(* Bounds of the model                                                     *)
(***************************************************************************)
\* longest card script drawn for one exchange of the exchange-level specification
MaxScript == 3
\* longest payload (beyond the frame limit) drawn for a chained transmit
MaxExtra == 1
\* the EV2 command counter is followed up to this value
MaxCmdCntr == 1

(***************************************************************************)
(* Program constants (pm3_cmd.h, protocols.h, desfirecore.h, desfire_crypto.h) *)
(***************************************************************************)
PM3_SUCCESS == 0
PM3_EINVARG == -2
PM3_ETIMEOUT == -4
PM3_EOPABORTED == -5
PM3_ESOFT == -10
PM3_ECARDEXCHANGE == -18
PM3_EAPDU_FAIL == -20

MFDES_S_OPERATION_OK == 0
MFDES_S_NO_CHANGES == 12
MFDES_S_SIGNATURE == 144
MFDES_S_ADDITIONAL_FRAME == 175
MFDES_ADDITIONAL_FRAME == 175
MFDES_S_AUTHENTICATION_ERROR == 174
MFDES_NATIVE_ISO7816_WRAP_CLA == 144

MFDES_SELECT_APPLICATION == 90
MFDES_AUTHENTICATE == 10
MFDES_AUTHENTICATE_ISO == 26
MFDES_AUTHENTICATE_AES == 170
MFDES_AUTHENTICATE_EV2F == 113
MFDES_AUTHENTICATE_EV2NF == 119
MFDES_CHANGE_KEY == 196
MFDES_GET_VERSION == 96

ISO7816_SELECT_FILE == 164
ISO7816_GET_CHALLENGE == 132
ISO7816_EXTERNAL_AUTHENTICATION == 130
ISO7816_INTERNAL_AUTHENTICATION == 136

DESFIRE_TX_FRAME_MAX_LEN == 54
DESFIRE_MAX_KEY_SIZE == 24
CRYPTO_AES_BLOCK_SIZE == 16
APDU_INCLUDE_LE_00 == 256

\* DESFIRE_GET_ISO_STATUS(x): the 0x91xx status word of a native status
DESFIRE_GET_ISO_STATUS(x) == 37120 + x

(***************************************************************************)
(* Bytes and buffers                                                       *)
(***************************************************************************)
Min(a, b) == IF a < b THEN a ELSE b

Max(a, b) == IF a < b THEN b ELSE a

\* n bytes of value b
Fill(n, b) == [i \in 1..n |-> b]

Zeros(n) == Fill(n, 0)

\* a C buffer is modelled by the prefix that was written; bytes past it are 0
\* (every buffer of the source is zero-initialised).  Offsets are 0-based.
MemGet(buf, off) == IF off + 1 <= Len(buf) THEN buf[off + 1] ELSE 0

MemRead(buf, off, n) == [i \in 1..n |-> MemGet(buf, off + i - 1)]

\* memcpy(&buf[off], bytes, Len(bytes))
MemWrite(buf, off, bytes) ==
    LET n == Max(Len(buf), off + Len(bytes))
    IN  [i \in 1..n |-> IF i > off /\ i <= off + Len(bytes) THEN bytes[i - off]
                        ELSE MemGet(buf, i - 1)]

\* buf[off] = b
MemSet1(buf, off, b) == MemWrite(buf, off, <<b>>)

\* rol(): rotate a byte string left by one byte
rol(s) == IF Len(s) = 0 THEN s ELSE Tail(s) \o <<Head(s)>>

IsZero(s) == \A i \in 1..Len(s) : s[i] = 0

(***************************************************************************)
(* The environment: replies of the reader transport                        *)
(***************************************************************************)
\* a transport reply: the transport's result code and the raw bytes received
Reply(res, raw) == [res |-> res, raw |-> raw]

\* script exhausted: the card does not answer any more
TimeoutReply == Reply(PM3_ETIMEOUT, <<>>)

NextReply(script, k) == IF k <= Len(script) THEN script[k] ELSE TimeoutReply

\* a raw ISO 14443-4 frame of a native answer: status, data, two CRC bytes
NativeRaw(status, data) == <<status>> \o data \o <<0, 0>>

\* the answer to an ISO 7816 APDU: data, SW1, SW2
ApduRaw(data, sw1, sw2) == data \o <<sw1, sw2>>

(***************************************************************************)
(* Transport wrappers                                                      *)
(***************************************************************************)
FieldEvents_SleepFirst(activate_field) ==
    (IF activate_field THEN <<"msleep50", "DropField">> ELSE <<>>) \o <<"exchange">>

\* what DropField / msleep(50) / the exchange with the card leave in the event log
FieldEvents(activate_field) ==
    (IF activate_field THEN <<"DropField", "msleep50">> ELSE <<>>) \o <<"exchange">>

OkStatuses ==
    {MFDES_S_OPERATION_OK, MFDES_S_SIGNATURE, MFDES_S_ADDITIONAL_FRAME, MFDES_S_NO_CHANGES}

DESFIRESendRaw_NoChangesFails(activate_field, data, reply) ==
    LET n == Len(reply.raw)
        rcode == reply.raw[1]
    IN  IF reply.res # PM3_SUCCESS \/ n < 1
        THEN [res |-> reply.res, result_len |-> 0, respcode |-> 255, result |-> <<>>,
              ub |-> FALSE, events |-> FieldEvents(activate_field)]
        ELSE [res |-> IF rcode \in {MFDES_S_OPERATION_OK, MFDES_S_ADDITIONAL_FRAME}
                      THEN PM3_SUCCESS ELSE PM3_EAPDU_FAIL,
              result_len |-> n - 3, respcode |-> rcode,
              result |-> IF n >= 3 THEN SubSeq(reply.raw, 2, n - 2) ELSE <<>>,
              ub |-> n < 3, events |-> FieldEvents(activate_field)]

\* DESFIRESendRaw: send a native frame, split the answer in status byte and data.
\* A uint32_t is held as the signed 32-bit number with the same bit pattern, the
\* values from 2^31 up being the negative numbers: "*result_len -= 1 + 2" wraps
\* to one of them when fewer than 3 bytes came back, and the memmove that follows
\* then runs past the buffer (ub).
DESFIRESendRaw(activate_field, data, reply) ==
    LET n == Len(reply.raw)
        rcode == reply.raw[1]
    IN  IF reply.res # PM3_SUCCESS
        THEN [res |-> reply.res, result_len |-> 0, respcode |-> 255, result |-> <<>>,
              ub |-> FALSE, events |-> FieldEvents(activate_field)]
        ELSE IF n < 1
        THEN [res |-> PM3_SUCCESS, result_len |-> 0, respcode |-> 255, result |-> <<>>,
              ub |-> FALSE, events |-> FieldEvents(activate_field)]
        ELSE [res |-> IF rcode \notin OkStatuses THEN PM3_EAPDU_FAIL ELSE PM3_SUCCESS,
              result_len |-> n - 3, respcode |-> rcode,
              result |-> IF n >= 3 THEN SubSeq(reply.raw, 2, n - 2) ELSE <<>>,
              ub |-> n < 3, events |-> FieldEvents(activate_field)]

\* sAPDU
Apdu(cla, ins, p1, p2, lc, data) ==
    [CLA |-> cla, INS |-> ins, P1 |-> p1, P2 |-> p2, Lc |-> lc, data |-> data]

\* APDUEncodeS(&apdu, false, le, ...): CLA INS P1 P2 [Lc data] [Le]
APDUEncodeS(apdu, le) ==
    <<apdu.CLA, apdu.INS, apdu.P1, apdu.P2>>
    \o (IF apdu.Lc > 0 THEN <<apdu.Lc>> \o SubSeq(apdu.data, 1, apdu.Lc) ELSE <<>>)
    \o (IF le = 0 THEN <<>> ELSE <<le % 256>>)

OkStatusWords ==
    {36864} \cup {DESFIRE_GET_ISO_STATUS(x) : x \in OkStatuses}

\* DESFIRESendApduEx: send an APDU, split the answer in data and status word
DESFIRESendApduEx(activate_field, apdu, le, reply) ==
    LET n == Len(reply.raw)
        isw == reply.raw[n - 1] * 256 + reply.raw[n]
    IN  IF reply.res # PM3_SUCCESS
        THEN [res |-> reply.res, result_len |-> 0, sw |-> 0, result |-> <<>>,
              ub |-> FALSE, events |-> FieldEvents(activate_field)]
        ELSE IF n < 2
        THEN [res |-> PM3_SUCCESS, result_len |-> n, sw |-> 0, result |-> reply.raw,
              ub |-> FALSE, events |-> FieldEvents(activate_field)]
        ELSE [res |-> IF isw \notin OkStatusWords THEN PM3_EAPDU_FAIL ELSE PM3_SUCCESS,
              result_len |-> n - 2, sw |-> isw, result |-> SubSeq(reply.raw, 1, n - 2),
              ub |-> FALSE, events |-> FieldEvents(activate_field)]

DESFIRESendApdu(activate_field, apdu, reply) ==
    DESFIRESendApduEx(activate_field, apdu, APDU_INCLUDE_LE_00, reply)

\* one entry of the log of frames handed to the transport
Sent(frame, activate_field) == [frame |-> frame, activate |-> activate_field]

(***************************************************************************)
(* DesfireExchangeNative                                                   *)
(***************************************************************************)
\* the result of an exchange that stops on a failed transport call: *resplen and
\* *respcode keep what the function gave them before the call
ExchFail(res, respcode, resp, st) ==
    [res |-> res, respcode |-> respcode, resp |-> resp, resplen |-> 0,
     sent |-> st.sent, events |-> st.events, nreplies |-> st.k - 1, ub |-> st.ub,
     maxext |-> st.maxext, phase |-> st.phase]

RxWrite_Packed(resp, splitbysize, i, pos, buf, buflen) == MemWrite(resp, pos, buf)

\* where the response of frame i (0-based count of frames already stored) goes
RxWrite(resp, splitbysize, i, pos, buf, buflen) ==
    IF splitbysize # 0
    THEN MemWrite(MemSet1(resp, i * splitbysize, buflen % 256), i * splitbysize + 1, buf)
    ELSE MemWrite(resp, pos, buf)

\* the end (exclusive) of the bytes that write touches
RxExtent(splitbysize, i, pos, buflen) ==
    IF splitbysize # 0 THEN i * splitbysize + 1 + buflen ELSE pos + buflen

\* "if (res != PM3_SUCCESS) return res;" after every transport call of an exchange
TransportFailed_TimeoutIgnored(r) == r.res # PM3_SUCCESS /\ r.res # PM3_ETIMEOUT

TransportFailed(r) == r.res # PM3_SUCCESS

RECURSIVE NativeTxLoop(_, _, _, _)
\* one pass of the "tx chaining" loop from the return of its transport call on:
\* st already holds the frame sent, r is what DESFIRESendRaw returned
NativeTxSent(activate_field, cdatalen, script, st, len, r) ==
    LET st1 == [st EXCEPT !.events = @ \o r.events, !.ub = @ \/ r.ub]
        st2 == [st1 EXCEPT !.sentdatalen = @ + len]
    IN  IF TransportFailed(r)
        THEN [st |-> st1, r |-> r, stop |-> "fail"]
        ELSE IF r.respcode # MFDES_ADDITIONAL_FRAME \/ r.result_len # 0
        THEN [st |-> st2, r |-> r, stop |-> "break"]
        ELSE IF cdatalen >= st2.sentdatalen
        THEN NativeTxLoop(activate_field, cdatalen, script, st2)
        ELSE [st |-> st2, r |-> r, stop |-> "break"]

NativeTxLoop_NoContinuationByte(activate_field, cdatalen, script, st) ==
    LET len == IF cdatalen - st.sentdatalen > DESFIRE_TX_FRAME_MAX_LEN
               THEN DESFIRE_TX_FRAME_MAX_LEN ELSE cdatalen - st.sentdatalen
        chained == st.sentdatalen > 0
        sendindx == IF chained THEN st.sentdatalen - 1 ELSE st.sentdatalen
        sendlen == IF chained THEN len + 1 ELSE len
        frame == MemRead(st.cdata, sendindx, sendlen)
    IN  NativeTxSent(activate_field, cdatalen, script,
                     [st EXCEPT !.k = @ + 1,
                                !.sent = Append(@, Sent(frame, activate_field))],
                     len, DESFIRESendRaw(activate_field, frame, NextReply(script, st.k)))

\* the "tx chaining" loop: st = [cdata, sentdatalen, k, sent, events, ub]; returns
\* st with the last transport result r and stop ("fail" or "break")
NativeTxLoop(activate_field, cdatalen, script, st) ==
    LET len == IF cdatalen - st.sentdatalen > DESFIRE_TX_FRAME_MAX_LEN
               THEN DESFIRE_TX_FRAME_MAX_LEN ELSE cdatalen - st.sentdatalen
        chained == st.sentdatalen > 0
        sendindx == IF chained THEN st.sentdatalen - 1 ELSE st.sentdatalen
        sendlen == IF chained THEN len + 1 ELSE len
        cdata == IF chained THEN MemSet1(st.cdata, sendindx, MFDES_ADDITIONAL_FRAME)
                 ELSE st.cdata
        frame == MemRead(cdata, sendindx, sendlen)
    IN  NativeTxSent(activate_field, cdatalen, script,
                     [st EXCEPT !.cdata = cdata, !.k = @ + 1,
                                !.sent = Append(@, Sent(frame, activate_field))],
                     len, DESFIRESendRaw(activate_field, frame, NextReply(script, st.k)))

\* the state of the receive loop after the answer r to a continuation frame
RxStored(splitbysize, st, respcode, r) ==
    [st EXCEPT !.respcode = respcode,
               !.resp = RxWrite(@, splitbysize, st.i, st.pos, r.result, r.result_len),
               !.maxext = Max(@, RxExtent(splitbysize, st.i, st.pos, r.result_len)),
               !.i = IF splitbysize # 0 THEN @ + 1 ELSE @,
               !.pos = @ + r.result_len]

\* what a receive loop returns when the chain is complete
RxDone(splitbysize, st) ==
    [res |-> PM3_SUCCESS, respcode |-> st.respcode, resp |-> st.resp,
     resplen |-> IF splitbysize # 0 THEN st.i ELSE st.pos,
     sent |-> st.sent, events |-> st.events, nreplies |-> st.k - 1,
     ub |-> st.ub, maxext |-> st.maxext, phase |-> "rx"]

RECURSIVE NativeRxLoop(_, _, _)
\* one pass of the receive loop from the return of its transport call on
NativeRxGot(splitbysize, script, st, st1, r) ==
    IF TransportFailed(r)
    THEN ExchFail(r.res, st.respcode, st.resp, st1)
    ELSE IF r.respcode = MFDES_ADDITIONAL_FRAME
    THEN NativeRxLoop(splitbysize, script, RxStored(splitbysize, st1, r.respcode, r))
    ELSE RxDone(splitbysize, RxStored(splitbysize, st1, r.respcode, r))

\* the state after a continuation frame went out and the transport returned r
RxSent(st, frame, r) ==
    [st EXCEPT !.k = @ + 1, !.sent = Append(@, Sent(frame, FALSE)),
               !.events = @ \o r.events, !.ub = @ \/ r.ub]

\* the second argument of NativeRxGot, given the transport result
NativeRxCall(splitbysize, script, st, r) ==
    NativeRxGot(splitbysize, script, st, RxSent(st, <<MFDES_ADDITIONAL_FRAME>>, r), r)

\* the "while (rcode == MFDES_ADDITIONAL_FRAME)" loop, entered with rcode = 0xAF;
\* st = [k, sent, events, ub, resp, pos, i, respcode, maxext]
NativeRxLoop(splitbysize, script, st) ==
    NativeRxCall(splitbysize, script, st,
                 DESFIRESendRaw(FALSE, <<MFDES_ADDITIONAL_FRAME>>, NextReply(script, st.k)))

\* the result of an exchange whose first answer ends it
RxFirst(st, rcode, resplen) ==
    [res |-> PM3_SUCCESS, respcode |-> rcode, resp |-> st.resp, resplen |-> resplen,
     sent |-> st.sent, events |-> st.events, nreplies |-> st.k - 1,
     ub |-> st.ub, maxext |-> st.maxext, phase |-> "rx"]

\* the receive loop's state at entry: the first answer is stored at offset 0
RxEntry(tx, resp0, splitbysize, rcode) ==
    [k |-> tx.st.k, sent |-> tx.st.sent, events |-> tx.st.events, ub |-> tx.st.ub,
     resp |-> RxWrite(resp0, splitbysize, 0, 0, tx.r.result, tx.r.result_len),
     pos |-> tx.r.result_len, i |-> 1, respcode |-> rcode,
     maxext |-> RxExtent(splitbysize, 0, 0, tx.r.result_len), phase |-> "rx"]

\* DesfireExchangeNative from the end of its transmit loop (tx) on
NativeAfterTx(resp0, script, enable_chaining, splitbysize, tx, st) ==
    IF tx.stop = "fail"
    THEN ExchFail(tx.r.res, 255, resp0, tx.st)
    ELSE IF ~enable_chaining
    THEN RxFirst(st, tx.r.respcode,
                 IF tx.r.respcode \in {MFDES_S_OPERATION_OK, MFDES_ADDITIONAL_FRAME}
                 THEN tx.r.result_len ELSE 0)
    ELSE IF tx.r.respcode = MFDES_ADDITIONAL_FRAME
    THEN NativeRxLoop(splitbysize, script, st)
    ELSE RxFirst(st, tx.r.respcode, IF splitbysize # 0 THEN 1 ELSE tx.r.result_len)

NativeTxDone(resp0, script, enable_chaining, splitbysize, tx) ==
    NativeAfterTx(resp0, script, enable_chaining, splitbysize, tx,
                  RxEntry(tx, resp0, splitbysize, tx.r.respcode))

\* DesfireExchangeNative(activate_field, ctx, cmd, data, datalen, respcode, resp,
\* resplen, enable_chaining, splitbysize); resp0 is the caller's buffer at entry
DesfireExchangeNative(activate_field, cmd, data, resp0, script, enable_chaining, splitbysize) ==
    NativeTxDone(resp0, script, enable_chaining, splitbysize,
                 NativeTxLoop(activate_field, Len(data) + 1, script,
                     [cdata |-> <<cmd>> \o data, sentdatalen |-> 0, k |-> 1, sent |-> <<>>,
                      events |-> <<>>, ub |-> FALSE, maxext |-> 0, phase |-> "tx"]))

(***************************************************************************)
(* DesfireExchangeISONative                                                *)
(***************************************************************************)
SwIsDesfire(sw) == (sw \div 256) = 145

\* "if (respcode != NULL && ((sw & 0xff00) == 0x9100)) *respcode = sw & 0xff"
SwRespcode(old, sw) == IF SwIsDesfire(sw) THEN sw % 256 ELSE old

RECURSIVE ISONativeTxLoop(_, _, _, _, _)
\* one pass of the "tx chaining" loop from the return of its transport call on
ISONativeTxSent(activate_field, data, datalen, script, st, lc, r) ==
    LET st1 == [st EXCEPT !.events = @ \o r.events, !.ub = @ \/ r.ub]
        st2 == [st1 EXCEPT !.sentdatalen = @ + lc]
    IN  IF TransportFailed(r)
        THEN [st |-> st1, r |-> r, stop |-> "fail"]
        ELSE IF r.sw # DESFIRE_GET_ISO_STATUS(MFDES_ADDITIONAL_FRAME) \/ r.result_len # 0
        THEN [st |-> st2, r |-> r, stop |-> "break"]
        ELSE IF datalen >= st2.sentdatalen
        THEN ISONativeTxLoop(activate_field, data, datalen, script, st2)
        ELSE [st |-> st2, r |-> r, stop |-> "break"]

ISONativeTxCall(activate_field, data, datalen, script, st, lc, apdu) ==
    ISONativeTxSent(activate_field, data, datalen, script,
                    [st EXCEPT !.k = @ + 1, !.ins = apdu.INS,
                               !.sent = Append(@, Sent(APDUEncodeS(apdu, APDU_INCLUDE_LE_00),
                                                       activate_field))],
                    lc, DESFIRESendApdu(activate_field, apdu, NextReply(script, st.k)))

\* the "tx chaining" loop; st = [sentdatalen, k, sent, events, ub, ins]
ISONativeTxLoop(activate_field, data, datalen, script, st) ==
    LET lc == IF datalen - st.sentdatalen > DESFIRE_TX_FRAME_MAX_LEN
              THEN DESFIRE_TX_FRAME_MAX_LEN ELSE datalen - st.sentdatalen
        ins == IF st.sentdatalen > 0 THEN MFDES_ADDITIONAL_FRAME ELSE st.ins
    IN  ISONativeTxCall(activate_field, data, datalen, script, st, lc,
                        Apdu(MFDES_NATIVE_ISO7816_WRAP_CLA, ins, 0, 0, lc,
                             MemRead(data, st.sentdatalen, lc)))

\* the continuation APDU of the receive loop
ISOContinue == Apdu(MFDES_NATIVE_ISO7816_WRAP_CLA, MFDES_ADDITIONAL_FRAME, 0, 0, 0, <<>>)

RECURSIVE ISONativeRxLoop(_, _, _)
\* one pass of the receive loop from the return of its transport call on
ISONativeRxGot(splitbysize, script, st, st1, r) ==
    IF TransportFailed(r)
    THEN ExchFail(r.res, st.respcode, st.resp, st1)
    ELSE IF r.sw = DESFIRE_GET_ISO_STATUS(MFDES_ADDITIONAL_FRAME)
    THEN ISONativeRxLoop(splitbysize, script,
                         RxStored(splitbysize, st1, SwRespcode(st1.respcode, r.sw), r))
    ELSE RxDone(splitbysize, RxStored(splitbysize, st1, SwRespcode(st1.respcode, r.sw), r))

ISONativeRxCall(splitbysize, script, st, r) ==
    ISONativeRxGot(splitbysize, script, st,
                   RxSent(st, APDUEncodeS(ISOContinue, APDU_INCLUDE_LE_00), r), r)

\* the "while (sw == 0x91AF)" loop; st = [k, sent, events, ub, resp, pos, i,
\* respcode, maxext]
ISONativeRxLoop(splitbysize, script, st) ==
    ISONativeRxCall(splitbysize, script, st,
                    DESFIRESendApdu(FALSE, ISOContinue, NextReply(script, st.k)))

\* DesfireExchangeISONative from the end of its transmit loop (tx) on
ISONativeAfterTx(resp0, script, enable_chaining, splitbysize, tx, st) ==
    IF tx.stop = "fail"
    THEN ExchFail(tx.r.res, 255, resp0, tx.st)
    ELSE IF ~enable_chaining
    THEN RxFirst(st, st.respcode,
                 IF tx.r.sw \in {DESFIRE_GET_ISO_STATUS(MFDES_S_OPERATION_OK),
                                 DESFIRE_GET_ISO_STATUS(MFDES_ADDITIONAL_FRAME)}
                 THEN tx.r.result_len ELSE 0)
    ELSE IF tx.r.sw = DESFIRE_GET_ISO_STATUS(MFDES_ADDITIONAL_FRAME)
    THEN ISONativeRxLoop(splitbysize, script, st)
    ELSE RxFirst(st, st.respcode, IF splitbysize # 0 THEN 1 ELSE tx.r.result_len)

ISONativeTxDone(resp0, script, enable_chaining, splitbysize, tx) ==
    ISONativeAfterTx(resp0, script, enable_chaining, splitbysize, tx,
                     RxEntry(tx, resp0, splitbysize, SwRespcode(255, tx.r.sw)))

\* DesfireExchangeISONative(activate_field, ctx, cmd, data, datalen, respcode, resp,
\* resplen, enable_chaining, splitbysize); resp0 is the caller's buffer at entry
DesfireExchangeISONative(activate_field, cmd, data, resp0, script, enable_chaining, splitbysize) ==
    ISONativeTxDone(resp0, script, enable_chaining, splitbysize,
                    ISONativeTxLoop(activate_field, data, Len(data), script,
                        [sentdatalen |-> 0, k |-> 1, sent |-> <<>>, events |-> <<>>,
                         ub |-> FALSE, ins |-> cmd, maxext |-> 0, phase |-> "tx"]))

\* DesfireExchangeISO: one APDU built by the caller; *resplen is written on success only
ExchangeISOResult(activate_field, apdu, le, r) ==
    [res |-> r.res, sw |-> r.sw, resp |-> r.result,
     resplen |-> IF r.res = PM3_SUCCESS THEN r.result_len ELSE 0,
     sent |-> <<Sent(APDUEncodeS(apdu, le), activate_field)>>, events |-> r.events]

DesfireExchangeISO(activate_field, apdu, le, reply) ==
    ExchangeISOResult(activate_field, apdu, le,
                      DESFIRESendApduEx(activate_field, apdu, le, reply))

(***************************************************************************)
(* The session context (DesfireContext) and the secure-channel codec.      *)
(* DesfireClearSession, DesfireClearIV, DesfireIsAuthenticated and the     *)
(* codec DesfireSecureChannelEncode / Decode live in desfire_crypto.c and  *)
(* desfiresecurechan.c; they are modelled from the specification, sections *)
(* 3 and 4.3.  The block ciphers are external: the codec keeps the payload *)
(* bytes and appends / checks a keyed check value of the mode's length.    *)
(***************************************************************************)
SecureChannels == {"DACNone", "DACd40", "DACEV1", "DACEV2"}

CommandSets == {"DCCNative", "DCCNativeISO", "DCCISO"}

CommModes == {"DCMPlain", "DCMMACed", "DCMEncrypted"}

KeyTypes == {"T_DES", "T_3DES", "T_3K3DES", "T_AES"}

desfire_get_key_length(keyType) ==
    CASE keyType = "T_DES" -> 8
      [] keyType = "T_3DES" -> 16
      [] keyType = "T_3K3DES" -> 24
      [] keyType = "T_AES" -> 16

desfire_get_key_block_length(keyType) ==
    CASE keyType = "T_AES" -> 16
      [] OTHER -> 8

DesfireIsAuthenticated(c) == c.secureChannel # "DACNone"

DesfireClearIV(c) == [c EXCEPT !.IV = Zeros(DESFIRE_MAX_KEY_SIZE)]

DesfireClearSession(c) ==
    [c EXCEPT !.secureChannel = "DACNone",
              !.IV = Zeros(DESFIRE_MAX_KEY_SIZE),
              !.sessionKeyMAC = Zeros(DESFIRE_MAX_KEY_SIZE),
              !.sessionKeyEnc = Zeros(DESFIRE_MAX_KEY_SIZE),
              !.cmdCntr = 0,
              !.TI = Zeros(4)]

RECURSIVE SumFrom(_, _)
SumFrom(s, i) == IF i > Len(s) THEN 0 ELSE (s[i] + SumFrom(s, i + 1)) % 256

\* the sum of the bytes of s, modulo 256
SumBytes(s) == SumFrom(s, 1)

\* the commands of an authentication run travel outside the secure channel
AuthCommands ==
    {MFDES_AUTHENTICATE, MFDES_AUTHENTICATE_ISO, MFDES_AUTHENTICATE_AES,
     MFDES_AUTHENTICATE_EV2F, MFDES_AUTHENTICATE_EV2NF, MFDES_ADDITIONAL_FRAME}

\* the payload passes through unchanged: no channel, an authentication command,
\* or Plain mode below EV2
ChannelPassThrough(c, cmd) ==
    \/ c.secureChannel = "DACNone"
    \/ cmd \in AuthCommands
    \/ c.commMode = "DCMPlain" /\ c.secureChannel # "DACEV2"

\* length of the check value of a (variant, mode): CRC16, CRC32 or truncated CMAC
ChannelCheckLen(c) ==
    CASE c.secureChannel = "DACd40" -> 2
      [] c.secureChannel = "DACEV1" /\ c.commMode = "DCMEncrypted" -> 4
      [] OTHER -> 8

\* stand-in for CRC / CMAC: a check value over (first byte, payload) keyed by the
\* MAC session key, the EV2 counter and the transaction identifier
ChannelCheck(c, first, payload) ==
    [i \in 1..ChannelCheckLen(c) |->
        (first + SumBytes(payload) + SumBytes(c.sessionKeyMAC) + SumBytes(c.TI)
         + c.cmdCntr + i) % 256]

\* DesfireSecureChannelEncode(ctx, cmd, srcdata, srcdatalen, dstdata, &dstdatalen):
\* the bytes it leaves in dstdata
DesfireSecureChannelEncode(c, cmd, data) ==
    IF ChannelPassThrough(c, cmd)
    THEN data
    ELSE data \o ChannelCheck(c, cmd, data)

\* DesfireSecureChannelDecode(ctx, srcdata, srcdatalen, respcode, dstdata, &dstdatalen),
\* cmd being the command the context remembers from the encoding
DesfireSecureChannelDecode(c, cmd, data, respcode) ==
    LET n == ChannelCheckLen(c)
        body == SubSeq(data, 1, Len(data) - n)
        check == SubSeq(data, Len(data) - n + 1, Len(data))
    IN  IF ChannelPassThrough(c, cmd)
        THEN [ctx |-> c, resp |-> data, resplen |-> Len(data), verified |-> TRUE]
        ELSE IF Len(data) >= n /\ check = ChannelCheck(c, respcode, body)
        THEN [ctx |-> [c EXCEPT !.cmdCntr = IF c.secureChannel = "DACEV2"
                                            THEN (@ + 1) % 65536 ELSE @,
                                !.IV = IF c.secureChannel = "DACEV1"
                                       THEN MemRead(check, 0, DESFIRE_MAX_KEY_SIZE)
                                       ELSE @],
              resp |-> body, resplen |-> Len(body), verified |-> TRUE]
        ELSE [ctx |-> DesfireClearSession(c), resp |-> <<>>, resplen |-> 0,
              verified |-> FALSE]

(***************************************************************************)
(* DesfireExchangeEx                                                       *)
(***************************************************************************)
RECURSIVE JoinLoop(_, _, _, _, _)
JoinLoop(blockdata, blockdatacount, blockdatasize, i, dst) ==
    IF i >= blockdatacount THEN dst
    ELSE JoinLoop(blockdata, blockdatacount, blockdatasize, i + 1,
                  dst \o MemRead(blockdata, i * blockdatasize + 1,
                                 MemGet(blockdata, i * blockdatasize)))

\* DesfireJoinBlockToBytes: <length, data><length, data>... to one byte string
DesfireJoinBlockToBytes(blockdata, blockdatacount, blockdatasize) ==
    JoinLoop(blockdata, blockdatacount, blockdatasize, 0, <<>>)

RECURSIVE SplitLoop(_, _, _, _, _, _)
SplitLoop(blockdata, blockdatacount, blockdatasize, dstdata, i, len) ==
    IF i >= blockdatacount
    THEN [blockdata |-> blockdata, blockdatacount |-> blockdatacount]
    ELSE LET zeroed == MemWrite(blockdata, i * blockdatasize + 1, Zeros(blockdatasize - 1))
             tlen0 == len + MemGet(blockdata, i * blockdatasize)
             cut == tlen0 > Len(dstdata)
             tlen == IF cut THEN Len(dstdata) ELSE tlen0
             bd1 == IF cut
                    THEN MemSet1(zeroed, i * blockdatasize,
                                 IF tlen >= len THEN tlen - len ELSE 0)
                    ELSE zeroed
         IN  IF len = tlen
             THEN [blockdata |-> bd1, blockdatacount |-> i]
             ELSE SplitLoop(MemWrite(bd1, i * blockdatasize + 1,
                                     MemRead(dstdata, len, tlen - len)),
                            blockdatacount, blockdatasize, dstdata, i + 1, tlen)

\* DesfireSplitBytesToBlock: back from one byte string to the <length, data> slots
DesfireSplitBytesToBlock(blockdata, blockdatacount, blockdatasize, dstdata) ==
    SplitLoop(blockdata, blockdatacount, blockdatasize, dstdata, 0, 0)

\* the frame exchange DesfireExchangeEx picks for the command set
ExchangeFrames(cmdSet, activate_field, cmd, databuf, script, enable_chaining, splitbysize) ==
    IF cmdSet = "DCCNative"
    THEN DesfireExchangeNative(activate_field, cmd, databuf, databuf, script,
                               enable_chaining, splitbysize)
    ELSE DesfireExchangeISONative(activate_field, cmd, databuf, databuf, script,
                                  enable_chaining, splitbysize)

\* the exchange record of a call that sent nothing
NoExchange ==
    [res |-> PM3_EAPDU_FAIL, respcode |-> 255, resp |-> <<>>, resplen |-> 0,
     sent |-> <<>>, events |-> <<>>, nreplies |-> 0, ub |-> FALSE, maxext |-> 0,
     phase |-> "none"]

\* what DesfireExchangeEx hands back: the context, the result code, the caller's
\* out parameters and the record x of the frame exchange
ExchangeExResult(x, dec, resp, resplen) ==
    [ctx |-> dec.ctx, res |-> x.res, respcode |-> x.respcode,
     resp |-> resp, resplen |-> resplen, x |-> x]

\* "if (splitbysize)": the decoded bytes go back into the <length, data> slots
ExchangeExSplit(x, dec, splitbysize, spl) ==
    ExchangeExResult(x, dec,
        MemWrite(dec.resp, 0, MemRead(spl.blockdata, 0, spl.blockdatacount * splitbysize)),
        spl.blockdatacount)

ExchangeExDecoded(x, databuflen, splitbysize, dec) ==
    IF splitbysize # 0
    THEN ExchangeExSplit(x, dec, splitbysize,
             DesfireSplitBytesToBlock(x.resp, databuflen, splitbysize,
                                      SubSeq(dec.resp, 1, dec.resplen)))
    ELSE ExchangeExResult(x, dec, dec.resp, dec.resplen)

\* DesfireExchangeEx from the return of the frame exchange (x) on; the length read
\* back after a transport underflow is not followed (0)
ExchangeExReceived(c, cmd, splitbysize, x, databuflen) ==
    ExchangeExDecoded(x, databuflen, splitbysize,
        DesfireSecureChannelDecode(c, cmd,
            IF splitbysize # 0
            THEN DesfireJoinBlockToBytes(x.resp, databuflen, splitbysize)
            ELSE MemRead(x.resp, 0, databuflen),
            x.respcode))

ExchangeExExchanged(c, cmd, splitbysize, x) ==
    ExchangeExReceived(c, cmd, splitbysize, x, IF x.ub THEN 0 ELSE x.resplen)

\* DesfireExchangeEx, "case DCCNative: case DCCNativeISO:": encode, exchange the
\* frames, decode
ExchangeExNative(activate_field, c, cmd, data, script, enable_chaining, splitbysize) ==
    ExchangeExExchanged(c, cmd, splitbysize,
        ExchangeFrames(c.cmdSet, activate_field, cmd,
                       DesfireSecureChannelEncode(c, cmd, data), script,
                       enable_chaining, splitbysize))

\* "case DCCISO: return PM3_EAPDU_FAIL;": nothing is sent, the out parameters stay
ExchangeExRefused(c) ==
    [ctx |-> c, res |-> PM3_EAPDU_FAIL, respcode |-> 255, resp |-> <<>>,
     resplen |-> 0, x |-> NoExchange]

\* DesfireExchangeEx(activate_field, ctx, cmd, data, datalen, respcode, resp, resplen,
\* enable_chaining, splitbysize); PrintChannelModeWarning only prints
DesfireExchangeEx(activate_field, c, cmd, data, script, enable_chaining, splitbysize) ==
    IF c.cmdSet = "DCCISO"
    THEN ExchangeExRefused(c)
    ELSE ExchangeExNative(activate_field, c, cmd, data, script, enable_chaining, splitbysize)

(***************************************************************************)
(* Cryptographic primitives.  The block ciphers, the CBC helpers and the   *)
(* session-key constructions are external to desfirecore.c; they are       *)
(* modelled as keyed, invertible byte-wise functions with real CBC         *)
(* chaining, so that a wrong key, a wrong IV or a wrong nonce shows.       *)
(***************************************************************************)
RECURSIVE BitXor(_, _, _)
BitXor(a, b, n) ==
    IF n = 0 THEN 0
    ELSE (((a % 2) + (b % 2)) % 2) + 2 * BitXor(a \div 2, b \div 2, n - 1)

NibbleXor == [a \in 0..15 |-> [b \in 0..15 |-> BitXor(a, b, 4)]]

\* a ^ b on bytes
ByteXor(a, b) == 16 * NibbleXor[a \div 16][b \div 16] + NibbleXor[(a % 16)][(b % 16)]

\* bin_xor / the per-byte XOR loops
SeqXor(x, y) == [i \in 1..Len(x) |-> ByteXor(x[i], y[i])]

\* the byte a key contributes to the cipher stand-in
KeyByte(key) == (SumBytes(key) + 1) % 256

\* one block through the cipher, forward and backward, kb being the key's byte
BlockEnc(kb, blk) == [i \in 1..Len(blk) |-> (blk[i] + kb + i) % 256]

BlockDec(kb, blk) == [i \in 1..Len(blk) |-> (blk[i] - kb - i) % 256]

BlockEncrypt(key, blk) == BlockEnc(KeyByte(key), blk)

BlockDecrypt(key, blk) == BlockDec(KeyByte(key), blk)

RECURSIVE CbcEnc(_, _, _, _, _)
CbcEnc(kb, iv, data, bl, off) ==
    IF Len(data) - off < bl THEN [out |-> <<>>, iv |-> iv]
    ELSE LET c == BlockEnc(kb, [i \in 1..bl |-> ByteXor(data[off + i], iv[i])])
             rest == CbcEnc(kb, c, data, bl, off + bl)
         IN  [out |-> c \o rest.out, iv |-> rest.iv]

RECURSIVE CbcDec(_, _, _, _, _)
CbcDec(kb, iv, data, bl, off) ==
    IF Len(data) - off < bl THEN [out |-> <<>>, iv |-> iv]
    ELSE LET c == [i \in 1..bl |-> data[off + i]]
             d == BlockDec(kb, c)
             rest == CbcDec(kb, c, data, bl, off + bl)
         IN  [out |-> [i \in 1..bl |-> ByteXor(d[i], iv[i])] \o rest.out, iv |-> rest.iv]

\* CBC encryption of data (whole blocks of bl bytes); returns the output and the IV
\* left behind (mbedtls_*_crypt_cbc, des_encrypt_cbc, tdes_nxp_send)
CbcEncrypt(key, iv, data, bl) == CbcEnc(KeyByte(key), iv, data, bl, 0)

\* CBC decryption (mbedtls_*_crypt_cbc, des_decrypt_cbc, tdes_nxp_receive)
CbcDecrypt(key, iv, data, bl) == CbcDec(KeyByte(key), iv, data, bl, 0)

\* aes_encode / aes_decode(iv, key, in, out, len): CBC on a private copy of the IV
aes_encode(iv, key, data) == CbcEncrypt(key, iv, data, CRYPTO_AES_BLOCK_SIZE).out

aes_decode(iv, key, data) == CbcDecrypt(key, iv, data, CRYPTO_AES_BLOCK_SIZE).out

\* the key schedule an authentication run works with (Desfire_*_key_new): the
\* context's key bytes, a DES key doubled to its 2TDEA form
AuthKeyData(keyType, key) ==
    LET kb == SubSeq(key, 1, desfire_get_key_length(keyType))
    IN  IF keyType = "T_DES" THEN kb \o kb ELSE kb

\* Desfire_session_key_new(RndA, RndB, key, &sesskey): sesskey.data (24 bytes)
Desfire_session_key_new(keyType, RndA, RndB) ==
    LET a(i, j) == SubSeq(RndA, i + 1, j)
        b(i, j) == SubSeq(RndB, i + 1, j)
        half == a(0, 4) \o b(0, 4)
        k == CASE keyType = "T_DES" -> half \o half
               [] keyType = "T_3DES" -> half \o a(4, 8) \o b(4, 8)
               [] keyType = "T_3K3DES" ->
                      half \o a(6, 10) \o b(6, 10) \o a(12, 16) \o b(12, 16)
               [] keyType = "T_AES" -> half \o a(12, 16) \o b(12, 16)
    IN  MemRead(k, 0, DESFIRE_MAX_KEY_SIZE)

\* DesfireGenSessionKeyEV1(rnda, rndb, keytype, key)
DesfireGenSessionKeyEV1(RndA, RndB, keyType) ==
    SubSeq(Desfire_session_key_new(keyType, RndA, RndB), 1,
           desfire_get_key_length(keyType))

\* DesfireGenSessionKeyEV2(key, rndA, rndB, enctype, sessionkey): a keyed value of
\* the session vector tag || RndA[0..2] || (RndA[2..8] ^ RndB[0..6]) || RndB[6..16]
\* || RndA[8..16], the tag being A5 5A for the encryption key and 5A A5 for the MAC key
DesfireGenSessionKeyEV2(key, RndA, RndB, enckey) ==
    LET sv == (IF enckey THEN <<165, 90>> ELSE <<90, 165>>)
              \o SubSeq(RndA, 1, 2)
              \o SeqXor(SubSeq(RndA, 3, 8), SubSeq(RndB, 1, 6))
              \o SubSeq(RndB, 7, 16) \o SubSeq(RndA, 9, 16)
    IN  CbcEncrypt(key, Zeros(CRYPTO_AES_BLOCK_SIZE), SubSeq(sv, 1, 16) \o
                   (SubSeq(sv, 17, 28) \o Zeros(4)), CRYPTO_AES_BLOCK_SIZE).iv

(***************************************************************************)
(* Select                                                                  *)
(***************************************************************************)
\* DesfireAIDByteToUint / DesfireAIDUintToByte
DesfireAIDByteToUint(data) == data[1] + data[2] * 256 + data[3] * 65536

DesfireAIDUintToByte_BigEndian(aid) ==
    <<(aid \div 65536) % 256, (aid \div 256) % 256, aid % 256>>

DesfireAIDUintToByte(aid) == <<aid % 256, (aid \div 256) % 256, (aid \div 65536) % 256>>

\* a NULL byte pointer
NULL == <<>>

\* what is left of a script after an exchange used n replies
Rest(script, n) == SubSeq(script, n + 1, Len(script))

\* the tail shared by DesfireSelectAID and DesfireSelectAIDHexNoFieldOn, after
\* "ctx->secureChannel = DACNone" and the exchange e
SelectFinish(e, selected) ==
    IF e.res = PM3_SUCCESS
    THEN IF e.resplen # 0
         THEN [ctx |-> e.ctx, res |-> PM3_ECARDEXCHANGE, x |-> e.x]
         ELSE IF e.respcode # MFDES_S_OPERATION_OK
         THEN [ctx |-> e.ctx, res |-> PM3_EAPDU_FAIL, x |-> e.x]
         ELSE [ctx |-> [DesfireClearSession(e.ctx) EXCEPT !.appSelected = selected],
               res |-> PM3_SUCCESS, x |-> e.x]
    ELSE [ctx |-> e.ctx, res |-> e.res, x |-> e.x]

\* DesfireSelectAID(ctx, aid1, aid2)
DesfireSelectAID(c, aid1, aid2, script) ==
    IF aid1 = NULL
    THEN [ctx |-> c, res |-> PM3_EINVARG, x |-> NoExchange]
    ELSE SelectFinish(DesfireExchangeEx(TRUE, [c EXCEPT !.secureChannel = "DACNone"],
                                        MFDES_SELECT_APPLICATION, aid1 \o aid2, script,
                                        TRUE, 0),
                      aid1[1] # 0 \/ aid1[2] # 0 \/ aid1[3] # 0)

\* DesfireSelectAIDHex(ctx, aid1, select_two, aid2)
DesfireSelectAIDHex(c, aid1, select_two, aid2, script) ==
    DesfireSelectAID(c, DesfireAIDUintToByte(aid1),
                     IF select_two THEN DesfireAIDUintToByte(aid2) ELSE NULL, script)

\* DesfireSelectAIDHexNoFieldOn(ctx, aid)
DesfireSelectAIDHexNoFieldOn(c, aid, script) ==
    SelectFinish(DesfireExchangeEx(FALSE, [c EXCEPT !.secureChannel = "DACNone"],
                                   MFDES_SELECT_APPLICATION, DesfireAIDUintToByte(aid),
                                   script, TRUE, 0),
                 aid # 0)

(***************************************************************************)
(* ISO 7816 commands                                                       *)
(***************************************************************************)
DesfireKeyToISOKey(keytype) ==
    CASE keytype = "T_DES" -> 2
      [] keytype = "T_3DES" -> 2
      [] keytype = "T_3K3DES" -> 4
      [] keytype = "T_AES" -> 9

DesfireGetRndLenForKey(keytype) ==
    CASE keytype = "T_DES" -> 8
      [] keytype = "T_3DES" -> 8
      [] keytype = "T_3K3DES" -> 16
      [] keytype = "T_AES" -> 16

\* DesfireISOSelectControl: the P1 of SELECT FILE
ISOSelectControls == {"ISSMFDFEF", "ISSEFByFileID", "ISSDFName"}

ISOSelectP1(cntr) ==
    CASE cntr = "ISSMFDFEF" -> 0
      [] cntr = "ISSEFByFileID" -> 2
      [] cntr = "ISSDFName" -> 4

\* the result of an ISO command: a status word other than 9000 is PM3_ESOFT
ISOResult(e) == IF e.res = PM3_SUCCESS /\ e.sw # 36864 THEN PM3_ESOFT ELSE e.res

\* DesfireISOSelect from the return of its exchange (e) on
ISOSelectFinish(c, cntr, data, e) ==
    IF e.res = PM3_SUCCESS /\ e.sw # 36864
    THEN [ctx |-> c, res |-> PM3_ESOFT, sent |-> e.sent]
    ELSE [ctx |-> [DesfireClearSession(c) EXCEPT !.appSelected =
                      ~ (\/ cntr = "ISSMFDFEF" /\ Len(data) = 0
                         \/ cntr = "ISSEFByFileID" /\ Len(data) = 2
                            /\ data[1] = 0 /\ data[2] = 0)],
          res |-> e.res, sent |-> e.sent]

\* DesfireISOSelect(dctx, cntr, data, datalen, resp, resplen)
DesfireISOSelect(c, cntr, data, wantresp, reply) ==
    ISOSelectFinish(c, cntr, data,
        DesfireExchangeISO(TRUE,
            Apdu(0, ISO7816_SELECT_FILE, ISOSelectP1(cntr),
                 IF wantresp THEN 0 ELSE 12, Len(data), data),
            APDU_INCLUDE_LE_00, reply))

\* what an ISO command hands back of its exchange e
ISOReturn(e) ==
    [res |-> ISOResult(e), resp |-> e.resp, resplen |-> e.resplen, sent |-> e.sent]

\* DesfireISOGetChallenge(dctx, keytype, resp, resplen)
DesfireISOGetChallenge(keytype, reply) ==
    ISOReturn(DesfireExchangeISO(FALSE, Apdu(0, ISO7816_GET_CHALLENGE, 0, 0, 0, <<>>),
                                 DesfireGetRndLenForKey(keytype), reply))

ISOAuthP2(app_level, keynum) == (IF app_level THEN 128 ELSE 0) + (keynum % 128)

\* DesfireISOExternalAuth(dctx, app_level, keynum, keytype, data)
DesfireISOExternalAuth(app_level, keynum, keytype, data, reply) ==
    ISOReturn(DesfireExchangeISO(FALSE,
        Apdu(0, ISO7816_EXTERNAL_AUTHENTICATION, DesfireKeyToISOKey(keytype),
             ISOAuthP2(app_level, keynum), DesfireGetRndLenForKey(keytype) * 2, data),
        0, reply))

\* DesfireISOInternalAuth(dctx, app_level, keynum, keytype, data, resp, resplen)
DesfireISOInternalAuth(app_level, keynum, keytype, data, reply) ==
    ISOReturn(DesfireExchangeISO(FALSE,
        Apdu(0, ISO7816_INTERNAL_AUTHENTICATION, DesfireKeyToISOKey(keytype),
             ISOAuthP2(app_level, keynum), DesfireGetRndLenForKey(keytype), data),
        DesfireGetRndLenForKey(keytype) * 2, reply))

(***************************************************************************)
(* Authentication.  The key derivation functions (kdfAlgo) are not used:   *)
(* the context's kdfAlgo is MFDES_KDF_ALGO_NONE.  mbedtls_aes_setkey_* and *)
(* aes_encode / aes_decode cannot fail for a 128-bit key and whole blocks, *)
(* so of the reasons 5, 6 and 10 only the length failure of EV2's last     *)
(* aes_decode is reachable.                                                *)
(***************************************************************************)
\* uint8_t RndA[16] / hostrnd[] and hostrnd2[]
RndA0 == <<1, 2, 3, 4, 5, 6, 7, 8, 9, 16, 17, 18, 19, 20, 21, 22>>

hostrnd2 == <<22, 21, 20, 19, 18, 17, 16, 9, 8, 7, 6, 5, 4, 3, 2, 1>>

\* the outcome of an authentication run
AuthResult(c, res, sent, n) == [ctx |-> c, res |-> res, sent |-> sent, nreplies |-> n]

\* the caller's receive buffer after an exchange wrote resplen bytes into it
RecvInto(recv_data, e) == MemWrite(recv_data, 0, SubSeq(e.resp, 1, e.resplen))

\* the card's encRndB decrypted, with the local IV the decryption leaves
EV1DecryptRndB(keyType, secureChannel, key, encRndB, rndlen) ==
    IF keyType = "T_DES" /\ secureChannel = "DACd40"
    THEN [out |-> BlockDecrypt(key, SubSeq(encRndB, 1, 8)),
          iv |-> Zeros(desfire_get_key_block_length(keyType))]
    ELSE IF keyType = "T_DES" /\ secureChannel # "DACEV1"
    THEN [out |-> <<>>, iv |-> Zeros(desfire_get_key_block_length(keyType))]
    ELSE CbcDecrypt(key, Zeros(desfire_get_key_block_length(keyType)),
                    SubSeq(encRndB, 1, rndlen), desfire_get_key_block_length(keyType))

\* the D40 cryptogram: dk(RndA) || dk(RndB' ^ dk(RndA)), encRndA being dk(RndA)
EV1BothD40(key, rndlen, rotRndB, encRndA) ==
    MemRead(encRndA, 0, rndlen)
    \o MemRead(BlockDecrypt(key, SeqXor(MemRead(rotRndB, 0, 8), encRndA)), 0, rndlen)

\* the EV1 cryptogram ek(RndA || RndB') and the local IV it leaves
EV1BothCbc(RndB, enc) == [RndB |-> RndB, iv |-> enc.iv, both |-> enc.out]

\* the host's cryptogram for the decrypted answer dec
EV1Both(keyType, secureChannel, key, rndlen, dec, RndB, rotRndB) ==
    IF secureChannel = "DACd40"
    THEN [RndB |-> RndB, iv |-> dec.iv,
          both |-> IF keyType \in {"T_DES", "T_3DES"}
                   THEN EV1BothD40(key, rndlen, rotRndB,
                                   BlockDecrypt(key, SubSeq(RndA0, 1, 8)))
                   ELSE <<>>]
    ELSE IF secureChannel = "DACEV1"
    THEN EV1BothCbc(RndB, CbcEncrypt(key, dec.iv, MemRead(RndA0, 0, rndlen) \o rotRndB,
                                     desfire_get_key_block_length(keyType)))
    ELSE [RndB |-> RndB, iv |-> dec.iv, both |-> <<>>]

EV1Decrypted(keyType, secureChannel, key, rndlen, dec) ==
    EV1Both(keyType, secureChannel, key, rndlen, dec, MemRead(dec.out, 0, 16),
            rol(MemRead(dec.out, 0, rndlen)))

\* DesfireAuthenticateEV1, "Part 3" up to the host's cryptogram: RndB from the
\* card's encRndB, and ek(RndA || RndB') with the local IV carried on
EV1Part3(keyType, secureChannel, key, encRndB, rndlen) ==
    EV1Decrypted(keyType, secureChannel, key, rndlen,
                 EV1DecryptRndB(keyType, secureChannel, key, encRndB, rndlen))

\* DesfireAuthenticateEV1, "Part 4": the card's encRndA decrypted
EV1Part4(keyType, secureChannel, key, iv, encRndA, rndlen) ==
    IF (keyType = "T_DES" \/ keyType = "T_3DES") /\ secureChannel = "DACd40"
    THEN BlockDecrypt(key, SubSeq(encRndA, 1, 8)) \o SubSeq(encRndA, 9, rndlen)
    ELSE IF keyType = "T_DES" /\ secureChannel # "DACEV1"
    THEN SubSeq(encRndA, 1, rndlen)
    ELSE CbcDecrypt(key, iv, SubSeq(encRndA, 1, rndlen),
                    desfire_get_key_block_length(keyType)).out

EV1Subcommand_NoAES(keyType, secureChannel) ==
    IF secureChannel = "DACEV1" THEN MFDES_AUTHENTICATE_ISO ELSE MFDES_AUTHENTICATE

EV1Subcommand(keyType, secureChannel) ==
    IF secureChannel = "DACEV1"
    THEN IF keyType = "T_AES" THEN MFDES_AUTHENTICATE_AES ELSE MFDES_AUTHENTICATE_ISO
    ELSE MFDES_AUTHENTICATE

EV1ExpectedLen_BlockLength(keyType) == desfire_get_key_block_length(keyType)

\* the length of the card's first answer the run accepts
EV1ExpectedLen(keyType) == IF keyType \in {"T_AES", "T_3K3DES"} THEN 16 ELSE 8

\* the end of DesfireAuthenticateEV1: enc2 is the session key with the halves of a
\* single-DES-compatible 2TDEA key made equal
EV1Established(c1, secureChannel, enc2, sent, n) ==
    AuthResult([c1 EXCEPT !.sessionKeyEnc = enc2,
                          !.IV = Zeros(DESFIRE_MAX_KEY_SIZE),
                          !.secureChannel = secureChannel,
                          !.sessionKeyMAC = MemWrite(@, 0,
                              SubSeq(enc2, 1, desfire_get_key_length(c1.keyType)))],
               PM3_SUCCESS, sent, n)

\* the end of the authentication without the comparison of RndA'
EV1Verify_Unchecked(c1, secureChannel, key, mismatch, sent, n) ==
    EV1Established(c1, secureChannel,
        IF c1.keyType = "T_3DES" /\ SubSeq(key, 1, 8) = SubSeq(key, 9, 16)
        THEN MemWrite(c1.sessionKeyEnc, 8, SubSeq(c1.sessionKeyEnc, 1, 8))
        ELSE c1.sessionKeyEnc,
        sent, n)

\* the session key is in the context (c1); RndA' is verified
EV1Verify(c1, secureChannel, key, mismatch, sent, n) ==
    IF mismatch
    THEN AuthResult(c1, 11, sent, n)
    ELSE EV1Established(c1, secureChannel,
             IF c1.keyType = "T_3DES" /\ SubSeq(key, 1, 8) = SubSeq(key, 9, 16)
             THEN MemWrite(c1.sessionKeyEnc, 8, SubSeq(c1.sessionKeyEnc, 1, 8))
             ELSE c1.sessionKeyEnc,
             sent, n)

\* "Part 4" onwards of DesfireAuthenticateEV1: the session key goes into the
\* context, then RndA' is verified, then the channel is switched on
EV1Finish(c, secureChannel, key, p3, encRndA, rndlen, sent, n) ==
    EV1Verify([c EXCEPT !.sessionKeyEnc = MemWrite(@, 0,
                  SubSeq(Desfire_session_key_new(c.keyType, RndA0, p3.RndB), 1,
                         desfire_get_key_length(c.keyType)))],
              secureChannel, key,
              rol(MemRead(RndA0, 0, rndlen))
                  # EV1Part4(c.keyType, secureChannel, key, p3.iv, encRndA, rndlen),
              sent, n)

\* DesfireAuthenticateEV1 from the return of the second exchange (e2) on
EV1AfterSecond(secureChannel, key, e1, p3, e2, sent2, n2) ==
    IF e2.res # PM3_SUCCESS THEN AuthResult(e2.ctx, 7, sent2, n2)
    ELSE IF e2.resplen = 0 THEN AuthResult(e2.ctx, 8, sent2, n2)
    ELSE IF e2.respcode # MFDES_S_OPERATION_OK THEN AuthResult(e2.ctx, 9, sent2, n2)
    ELSE EV1Finish(e2.ctx, secureChannel, key, p3,
                   MemRead(RecvInto(RecvInto(<<>>, e1), e2), 0, e1.resplen),
                   e1.resplen, sent2, n2)

EV1SecondDone(secureChannel, key, e1, p3, e2) ==
    EV1AfterSecond(secureChannel, key, e1, p3, e2, e1.x.sent \o e2.x.sent,
                   e1.x.nreplies + e2.x.nreplies)

\* the second exchange carries the host's cryptogram p3.both
EV1SendBoth(secureChannel, key, script, e1, p3) ==
    EV1SecondDone(secureChannel, key, e1, p3,
        DesfireExchangeEx(FALSE, e1.ctx, MFDES_ADDITIONAL_FRAME,
            MemRead(p3.both, 0, IF e1.ctx.keyType \in {"T_AES", "T_3K3DES"} THEN 32 ELSE 16),
            Rest(script, e1.x.nreplies), FALSE, 0))

\* DesfireAuthenticateEV1 from the return of the first exchange (e1) on
EV1AfterFirst(secureChannel, key, script, e1) ==
    IF e1.res # PM3_SUCCESS THEN AuthResult(e1.ctx, 1, e1.x.sent, e1.x.nreplies)
    ELSE IF e1.resplen = 0 THEN AuthResult(e1.ctx, 2, e1.x.sent, e1.x.nreplies)
    ELSE IF e1.respcode # MFDES_ADDITIONAL_FRAME
    THEN AuthResult(e1.ctx, 3, e1.x.sent, e1.x.nreplies)
    ELSE IF e1.resplen # EV1ExpectedLen(e1.ctx.keyType)
    THEN AuthResult(e1.ctx, 4, e1.x.sent, e1.x.nreplies)
    ELSE EV1SendBoth(secureChannel, key, script, e1,
             EV1Part3(e1.ctx.keyType, secureChannel, key,
                      MemRead(RecvInto(<<>>, e1), 0, e1.resplen), e1.resplen))

\* DesfireAuthenticateEV1(dctx, secureChannel, verbose)
DesfireAuthenticateEV1(c, secureChannel, script) ==
    IF secureChannel = "DACNone"
    THEN AuthResult(DesfireClearSession(c), PM3_SUCCESS, <<>>, 0)
    ELSE EV1AfterFirst(secureChannel, AuthKeyData(c.keyType, c.key), script,
             DesfireExchangeEx(FALSE, DesfireClearSession(c),
                               EV1Subcommand(c.keyType, secureChannel),
                               <<c.keyNum>>, script, FALSE, 0))

\* the end of DesfireAuthenticateEV2: TI and the counter on a first
\* authentication, the IV, both session keys and the channel
EV2Established(c1, secureChannel, key, RndB, sent, n) ==
    AuthResult([DesfireClearIV(c1) EXCEPT
                   !.sessionKeyEnc = MemWrite(@, 0,
                       DesfireGenSessionKeyEV2(key, rol(RndA0), RndB, TRUE)),
                   !.sessionKeyMAC = MemWrite(@, 0,
                       DesfireGenSessionKeyEV2(key, rol(RndA0), RndB, FALSE)),
                   !.secureChannel = secureChannel],
               PM3_SUCCESS, sent, n)

EV2Verify_AlwaysStoresTI(c, secureChannel, firstauth, RndB, data, sent, n) ==
    IF rol(RndA0) # (IF firstauth THEN MemRead(data, 4, 16) ELSE MemRead(data, 0, 16))
    THEN AuthResult(c, 11, sent, n)
    ELSE EV2Established([c EXCEPT !.cmdCntr = 0, !.TI = MemRead(data, 0, 4)],
                        secureChannel, SubSeq(c.key, 1, 16), RndB, sent, n)

\* the card's answer decrypted (data): RndA' is verified; a first authentication
\* resets the command counter and stores the transaction identifier
EV2Verify(c, secureChannel, firstauth, RndB, data, sent, n) ==
    IF rol(RndA0) # (IF firstauth THEN MemRead(data, 4, 16) ELSE MemRead(data, 0, 16))
    THEN AuthResult(c, 11, sent, n)
    ELSE EV2Established(IF firstauth
                        THEN [c EXCEPT !.cmdCntr = 0, !.TI = MemRead(data, 0, 4)]
                        ELSE c,
                        secureChannel, SubSeq(c.key, 1, 16), RndB, sent, n)

\* "Part 4" onwards of DesfireAuthenticateEV2: the answer is decrypted, RndA'
\* verified, then TI, the counter, the IV, both session keys and the channel are set
EV2Finish(c, secureChannel, firstauth, RndB, recv_data, recv_len, sent, n) ==
    IF recv_len % CRYPTO_AES_BLOCK_SIZE # 0
    THEN AuthResult(c, 10, sent, n)
    ELSE EV2Verify(c, secureChannel, firstauth, RndB,
             MemRead(aes_decode(Zeros(16), SubSeq(c.key, 1, 16),
                                MemRead(recv_data, 0, recv_len)), 0, 32),
             sent, n)

\* DesfireAuthenticateEV2 from the return of the second exchange (e2) on
EV2AfterSecond(secureChannel, firstauth, e1, RndB, e2, sent2, n2) ==
    IF e2.res # PM3_SUCCESS THEN AuthResult(e2.ctx, 7, sent2, n2)
    ELSE IF e2.resplen = 0 THEN AuthResult(e2.ctx, 8, sent2, n2)
    ELSE IF e2.respcode # MFDES_S_OPERATION_OK THEN AuthResult(e2.ctx, 9, sent2, n2)
    ELSE EV2Finish(e2.ctx, secureChannel, firstauth, RndB,
                   RecvInto(RecvInto(<<>>, e1), e2), e2.resplen, sent2, n2)

EV2SecondDone(secureChannel, firstauth, e1, RndB, e2) ==
    EV2AfterSecond(secureChannel, firstauth, e1, RndB, e2, e1.x.sent \o e2.x.sent,
                   e1.x.nreplies + e2.x.nreplies)

\* the second exchange carries ek(RndA || RndB')
EV2SendBoth(secureChannel, firstauth, script, e1, RndB) ==
    EV2SecondDone(secureChannel, firstauth, e1, RndB,
        DesfireExchangeEx(FALSE, e1.ctx, MFDES_ADDITIONAL_FRAME,
            aes_encode(Zeros(16), SubSeq(e1.ctx.key, 1, 16), RndA0 \o rol(RndB)),
            Rest(script, e1.x.nreplies), FALSE, 0))

\* DesfireAuthenticateEV2 from the return of the first exchange (e1) on
EV2AfterFirst(secureChannel, firstauth, script, e1) ==
    IF e1.res # PM3_SUCCESS THEN AuthResult(e1.ctx, 1, e1.x.sent, e1.x.nreplies)
    ELSE IF e1.resplen = 0 THEN AuthResult(e1.ctx, 2, e1.x.sent, e1.x.nreplies)
    ELSE IF e1.respcode # MFDES_ADDITIONAL_FRAME
    THEN AuthResult(e1.ctx, 3, e1.x.sent, e1.x.nreplies)
    ELSE IF e1.resplen # CRYPTO_AES_BLOCK_SIZE
    THEN AuthResult(e1.ctx, 4, e1.x.sent, e1.x.nreplies)
    ELSE EV2SendBoth(secureChannel, firstauth, script, e1,
             aes_decode(Zeros(16), SubSeq(e1.ctx.key, 1, 16),
                        MemRead(RecvInto(<<>>, e1), 0, 16)))

\* DesfireAuthenticateEV2(dctx, secureChannel, firstauth, verbose)
DesfireAuthenticateEV2(c, secureChannel, firstauth, script) ==
    EV2AfterFirst(secureChannel, firstauth, script,
        DesfireExchangeEx(FALSE, c,
            IF firstauth THEN MFDES_AUTHENTICATE_EV2F ELSE MFDES_AUTHENTICATE_EV2NF,
            IF firstauth THEN <<c.keyNum, 0>> ELSE <<c.keyNum>>, script, FALSE, 0))

CryptoEncDecResult(c, r) == [ctx |-> [c EXCEPT !.IV = MemWrite(@, 0, r.iv)], out |-> r.out]

\* DesfireCryptoEncDec(ctx, use_session_key = false, srcdata, srcdatalen, dstdata,
\* encode): CBC under the context's key with the context's IV, which it advances
DesfireCryptoEncDec(c, data, encode) ==
    CryptoEncDecResult(c,
        IF encode
        THEN CbcEncrypt(AuthKeyData(c.keyType, c.key),
                        MemRead(c.IV, 0, desfire_get_key_block_length(c.keyType)), data,
                        desfire_get_key_block_length(c.keyType))
        ELSE CbcDecrypt(AuthKeyData(c.keyType, c.key),
                        MemRead(c.IV, 0, desfire_get_key_block_length(c.keyType)), data,
                        desfire_get_key_block_length(c.keyType)))

\* the end of DesfireAuthenticateISO: enc1 is the context's sessionKeyEnc with the
\* session key copied in
AuthISOEstablished(c, secureChannel, enc1, sent) ==
    AuthResult([DesfireClearIV(c) EXCEPT
                   !.sessionKeyEnc = enc1,
                   !.sessionKeyMAC = MemWrite(@, 0,
                       SubSeq(enc1, 1, desfire_get_key_length(c.keyType))),
                   !.secureChannel = secureChannel],
               PM3_SUCCESS, sent, 3)

AuthISOVerify_Unchecked(secureChannel, rndlen, dec, sent) ==
    AuthISOEstablished(dec.ctx, secureChannel,
        MemWrite(dec.ctx.sessionKeyEnc, 0,
                 DesfireGenSessionKeyEV1(RndA0, dec.out, dec.ctx.keyType)),
        sent)

\* the card's cryptogram decrypted (dec): hostrnd2 is verified
AuthISOVerify(secureChannel, rndlen, dec, sent) ==
    IF MemRead(hostrnd2, 0, rndlen) # MemRead(dec.out, rndlen, rndlen)
    THEN AuthResult(dec.ctx, 308, sent, 3)
    ELSE AuthISOEstablished(dec.ctx, secureChannel,
             MemWrite(dec.ctx.sessionKeyEnc, 0,
                      DesfireGenSessionKeyEV1(RndA0, dec.out, dec.ctx.keyType)),
             sent)

\* DesfireAuthenticateISO from the return of INTERNAL AUTHENTICATE (ia) on
AuthISOInternal(secureChannel, rndlen, c1, ia, sent) ==
    IF ia.res # PM3_SUCCESS THEN AuthResult(c1, 305, sent, 3)
    ELSE IF ia.resplen # rndlen * 2 THEN AuthResult(c1, 306, sent, 3)
    ELSE AuthISOVerify(secureChannel, rndlen,
             DesfireCryptoEncDec(c1, MemRead(ia.resp, 0, rndlen * 2), FALSE), sent)

AuthISOInternalDone(secureChannel, rndlen, c1, ia, sent2) ==
    AuthISOInternal(secureChannel, rndlen, c1, ia, sent2 \o ia.sent)

\* DesfireAuthenticateISO from the return of EXTERNAL AUTHENTICATE (ea) on
AuthISOExternal(secureChannel, rndlen, script, c1, g, ea) ==
    IF ea.res # PM3_SUCCESS
    THEN AuthResult(c1, 304, g.sent \o ea.sent, 2)
    ELSE AuthISOInternalDone(secureChannel, rndlen, c1,
             DesfireISOInternalAuth(c1.appSelected, c1.keyNum, c1.keyType, hostrnd2,
                                    NextReply(script, 3)),
             g.sent \o ea.sent)

\* the host's cryptogram (enc) goes out in EXTERNAL AUTHENTICATE
AuthISOEncoded(secureChannel, rndlen, script, g, enc) ==
    AuthISOExternal(secureChannel, rndlen, script, enc.ctx, g,
        DesfireISOExternalAuth(enc.ctx.appSelected, enc.ctx.keyNum, enc.ctx.keyType,
                               enc.out, NextReply(script, 2)))

\* DesfireAuthenticateISO from the return of GET CHALLENGE (g) on
AuthISOChallenged(c, secureChannel, rndlen, script, g) ==
    IF g.res # PM3_SUCCESS THEN AuthResult(c, 301, g.sent, 1)
    ELSE IF g.resplen # rndlen THEN AuthResult(c, 302, g.sent, 1)
    ELSE AuthISOEncoded(secureChannel, rndlen, script, g,
             DesfireCryptoEncDec(DesfireClearIV(c),
                 MemRead(RndA0, 0, rndlen) \o MemRead(g.resp, 0, rndlen), TRUE))

\* DesfireAuthenticateISO(dctx, secureChannel, verbose)
DesfireAuthenticateISO(c, secureChannel, script) ==
    AuthISOChallenged(c, secureChannel, DesfireGetRndLenForKey(c.keyType), script,
                      DesfireISOGetChallenge(c.keyType, NextReply(script, 1)))

\* DesfireAuthenticate(dctx, secureChannel, verbose)
DesfireAuthenticate(c, secureChannel, script) ==
    IF c.cmdSet = "DCCISO" /\ secureChannel # "DACEV2"
    THEN DesfireAuthenticateISO(c, secureChannel, script)
    ELSE IF secureChannel = "DACd40" \/ secureChannel = "DACEV1"
    THEN DesfireAuthenticateEV1(c, secureChannel, script)
    ELSE IF secureChannel = "DACEV2"
    THEN DesfireAuthenticateEV2(c, secureChannel, ~ DesfireIsAuthenticated(c), script)
    ELSE AuthResult(c, 100, <<>>, 0)

\* the outcome of DesfireSelectAndAuthenticateEx: the select's outcome (sel), whether
\* DesfireAuthenticate was called (authRun) and its outcome (auth)
SelectAuthResult(c, res, sel, authRun, auth) ==
    [ctx |-> c, res |-> res, sel |-> sel, authRun |-> authRun, auth |-> auth]

SelectAuthAuthenticated_IgnoresSession(sel, a) ==
    SelectAuthResult(a.ctx, a.res, sel, TRUE, a)

\* DesfireSelectAndAuthenticateEx from the return of DesfireAuthenticate (a) on
SelectAuthAuthenticated(sel, a) ==
    SelectAuthResult(a.ctx,
        IF a.res # PM3_SUCCESS THEN a.res
        ELSE IF DesfireIsAuthenticated(a.ctx) THEN PM3_SUCCESS ELSE 201,
        sel, TRUE, a)

\* the context after a select that succeeded: the command set is switched back
SelectAuthRestore(sel, isosw) ==
    IF isosw THEN [sel.ctx EXCEPT !.cmdSet = "DCCISO"] ELSE sel.ctx

\* DesfireSelectAndAuthenticateEx from the return of DesfireSelectAIDHex (sel) on
SelectAuthSelected(secureChannel, noauth, isosw, sel, script2) ==
    IF sel.res # PM3_SUCCESS
    THEN SelectAuthResult(sel.ctx, 200, sel, FALSE, AuthResult(sel.ctx, 0, <<>>, 0))
    ELSE IF noauth
    THEN SelectAuthResult(SelectAuthRestore(sel, isosw), PM3_SUCCESS, sel, FALSE,
                          AuthResult(sel.ctx, 0, <<>>, 0))
    ELSE SelectAuthAuthenticated(sel,
             DesfireAuthenticate(SelectAuthRestore(sel, isosw), secureChannel, script2))

\* "Switch to native for select": an ISO command set gives way to the wrapped
\* native one
SelectAuthSwitch(c) ==
    [c EXCEPT !.cmdSet = IF @ = "DCCISO" THEN "DCCNativeISO" ELSE @]

\* the select of DesfireSelectAndAuthenticateEx
SelectAuthSelect(c, aid, script1) ==
    DesfireSelectAIDHex(SelectAuthSwitch(c), aid, FALSE, 0, script1)

\* DesfireSelectAndAuthenticateEx(dctx, secureChannel, aid, noauth, verbose): the
\* card's replies to the select are script1, those to the authentication script2
DesfireSelectAndAuthenticateEx(c, secureChannel, aid, noauth, script1, script2) ==
    SelectAuthSelected(secureChannel, noauth, c.cmdSet = "DCCISO",
                       SelectAuthSelect(c, aid, script1), script2)

(***************************************************************************)
(* Commands                                                                *)
(***************************************************************************)
\* what DesfireCommandEx got from its exchange
ExchangeOutcome(e) == [res |-> e.res, respcode |-> e.respcode, resplen |-> e.resplen]

\* DesfireCommandEx without the test of the response length
CommandFinish_LengthUnchecked(e, checklength, splitbysize) ==
    IF e.res # PM3_SUCCESS \/ e.respcode # MFDES_S_OPERATION_OK
    THEN [ctx |-> e.ctx, res |-> IF e.res # PM3_SUCCESS THEN e.res ELSE PM3_EAPDU_FAIL,
          resp |-> <<>>, resplen |-> 0, x |-> e.x, e |-> ExchangeOutcome(e)]
    ELSE [ctx |-> e.ctx, res |-> PM3_SUCCESS,
          resp |-> MemRead(e.resp, 0, IF splitbysize = 0 THEN e.resplen
                                      ELSE e.resplen * splitbysize),
          resplen |-> e.resplen, x |-> e.x, e |-> ExchangeOutcome(e)]

\* DesfireCommandEx from the return of its exchange (e) on: resp is what is copied
\* into the caller's buffer (nothing on a failure), resplen the caller's *resplen
CommandFinish(e, checklength, splitbysize) ==
    IF e.res # PM3_SUCCESS \/ e.respcode # MFDES_S_OPERATION_OK
       \/ (checklength >= 0 /\ e.resplen # checklength)
    THEN [ctx |-> e.ctx, res |-> IF e.res # PM3_SUCCESS THEN e.res ELSE PM3_EAPDU_FAIL,
          resp |-> <<>>, resplen |-> 0, x |-> e.x, e |-> ExchangeOutcome(e)]
    ELSE [ctx |-> e.ctx, res |-> PM3_SUCCESS,
          resp |-> MemRead(e.resp, 0, IF splitbysize = 0 THEN e.resplen
                                      ELSE e.resplen * splitbysize),
          resplen |-> e.resplen, x |-> e.x, e |-> ExchangeOutcome(e)]

\* DesfireCommandEx(dctx, cmd, data, datalen, resp, resplen, checklength, splitbysize):
\* resplen is the caller's *resplen, zeroed on entry
DesfireCommandEx(c, cmd, data, script, checklength, splitbysize) ==
    CommandFinish(DesfireExchangeEx(FALSE, c, cmd, data, script, TRUE, splitbysize),
                  checklength, splitbysize)

\* DesfireCommand(dctx, cmd, data, datalen, resp, resplen, checklength)
DesfireCommand(c, cmd, data, script, checklength) ==
    DesfireCommandEx(c, cmd, data, script, checklength, 0)

\* DesfireChangeKeyCmd(dctx, data, len, resp, resplen)
DesfireChangeKeyCmd(c, data, script) ==
    DesfireCommand(c, MFDES_CHANGE_KEY, data, script, -1)

\* iso14443a_crc and desfire_crc32 stand-ins: a 2-byte and a 4-byte checksum
iso14443a_crc(data) == <<SumBytes(data), (SumBytes(data) + Len(data)) % 256>>

desfire_crc32(data) ==
    <<SumBytes(data), (SumBytes(data) + Len(data)) % 256,
      (2 * SumBytes(data) + 1) % 256, (Len(data) + 7) % 256>>

\* DesfireKeyAlgoToType(keyType)
DesfireKeyAlgoToType(keyType) ==
    CASE keyType = "T_3K3DES" -> 1
      [] keyType = "T_AES" -> 2
      [] OTHER -> 0

\* DesfireDESKeySetVersion(key, keytype, version): the version's bits go into the
\* low bits of the first eight key bytes; the second half repeats them for DES
\* and has its low bits cleared otherwise
DesfireDESKeySetVersion(key, keytype, version) ==
    [n \in 1..Len(key) |->
        IF n <= 8
        THEN key[n] - (key[n] % 2) + ((version \div (2 ^ (8 - n))) % 2)
        ELSE IF n <= 16
        THEN IF keytype = "T_DES"
             THEN key[n - 8] - (key[n - 8] % 2) + ((version \div (2 ^ (16 - n))) % 2)
             ELSE key[n] - (key[n] % 2)
        ELSE key[n]]

\* okeybuf: the old key, a DES key doubled to its 2TDEA form
ChangeKeyOld(oldkeytype, oldkey) ==
    LET ok0 == MemWrite(Zeros(DESFIRE_MAX_KEY_SIZE), 0,
                        MemRead(oldkey, 0, desfire_get_key_length(oldkeytype)))
    IN  IF oldkeytype = "T_DES" THEN MemWrite(ok0, 8, MemRead(oldkey, 0, 8)) ELSE ok0

\* the first nkeylen bytes of nkeybuf: the new key, a DES key doubled, the key
\* version set in a DES-family key when newkeyver is below 0x100
ChangeKeyNew(newkeytype, newkeyver, newkey) ==
    LET nk0 == MemWrite(Zeros(DESFIRE_MAX_KEY_SIZE), 0,
                        MemRead(newkey, 0, desfire_get_key_length(newkeytype)))
        nk1 == IF newkeytype = "T_DES" THEN MemWrite(nk0, 8, MemRead(newkey, 0, 8)) ELSE nk0
        nkeylen == IF newkeytype = "T_DES" THEN desfire_get_key_length("T_3DES")
                   ELSE desfire_get_key_length(newkeytype)
    IN  SubSeq(IF newkeytype # "T_AES" /\ newkeyver < 256
               THEN DesfireDESKeySetVersion(nk1, newkeytype, newkeyver)
               ELSE nk1, 1, nkeylen)

ChangeKeyCrc_PlaintextOnly(c, keynodata, newkeynum, nkey, cd1) ==
    IF c.secureChannel = "DACd40"
    THEN cd1 \o iso14443a_crc(cd1)
         \o (IF newkeynum # c.keyNum THEN iso14443a_crc(nkey) ELSE <<>>)
    ELSE cd1 \o desfire_crc32(cd1)
         \o (IF newkeynum # c.keyNum THEN desfire_crc32(nkey) ELSE <<>>)

\* "add crc||crc_new_key": cd1 is the key material with the AES key version
ChangeKeyCrc(c, keynodata, newkeynum, nkey, cd1) ==
    IF c.secureChannel = "DACd40"
    THEN cd1 \o iso14443a_crc(cd1)
         \o (IF newkeynum # c.keyNum THEN iso14443a_crc(nkey) ELSE <<>>)
    ELSE cd1 \o desfire_crc32(<<MFDES_CHANGE_KEY, keynodata>> \o cd1)
         \o (IF newkeynum # c.keyNum THEN desfire_crc32(nkey) ELSE <<>>)

ChangeKeyXor_Always(c, keynodata, newkeynum, newkeytype, newkeyver, nkey, okeybuf) ==
    ChangeKeyCrc(c, keynodata, newkeynum, nkey,
        SeqXor(nkey, SubSeq(okeybuf, 1, Len(nkey)))
        \o (IF newkeytype = "T_AES" THEN <<newkeyver % 256>> ELSE <<>>))

\* "xor if we change current auth key" and "add key version for AES"
ChangeKeyXor(c, keynodata, newkeynum, newkeytype, newkeyver, nkey, okeybuf) ==
    ChangeKeyCrc(c, keynodata, newkeynum, nkey,
        (IF newkeynum = c.keyNum THEN nkey
         ELSE SeqXor(nkey, SubSeq(okeybuf, 1, Len(nkey))))
        \o (IF newkeytype = "T_AES" THEN <<newkeyver % 256>> ELSE <<>>))

\* the command data DesfireChangeKey builds behind the key number: cdata
ChangeKeyData(c, keynodata, newkeynum, newkeytype, newkeyver, newkey, oldkeytype, oldkey) ==
    ChangeKeyXor(c, keynodata, newkeynum, newkeytype, newkeyver,
                 ChangeKeyNew(newkeytype, newkeyver, newkey),
                 ChangeKeyOld(oldkeytype, oldkey))

\* "clear auth" of DesfireChangeKey: the session goes when the key that was changed
\* is the one the context names
ChangeKeyClearAuth_OtherKey(c, newkeynum) ==
    IF newkeynum # c.keyNum THEN DesfireClearSession(c) ELSE c

ChangeKeyClearAuth(c, newkeynum) ==
    IF newkeynum = c.keyNum THEN DesfireClearSession(c) ELSE c

ChangeKeyNo_Unmasked(change_master_key, newkeynum, newkeytype) ==
    (newkeynum
     + (IF change_master_key THEN (DesfireKeyAlgoToType(newkeytype) % 4) * 64 ELSE 0)) % 256

\* keynodata: the key number, with the key type in the top bits for a master key
ChangeKeyNo(change_master_key, newkeynum, newkeytype) ==
    (newkeynum % 64)
    + (IF change_master_key THEN (DesfireKeyAlgoToType(newkeytype) % 4) * 64 ELSE 0)

\* the session state of a context: secure channel, session keys, TI, key number
SessionOf(c) ==
    [secureChannel |-> c.secureChannel, sessionKeyEnc |-> c.sessionKeyEnc,
     sessionKeyMAC |-> c.sessionKeyMAC, TI |-> c.TI, keyNum |-> c.keyNum]

\* "clear auth" taken only when the card accepted the change
ChangeKeyFinish_ClearOnSuccess(newkeynum, cdata, cmd) ==
    [ctx |-> IF cmd.res = 0 THEN ChangeKeyClearAuth(cmd.ctx, newkeynum) ELSE cmd.ctx,
     res |-> IF cmd.res = 0 /\ cmd.resplen > 0 THEN -20 ELSE cmd.res,
     x |-> cmd.x, cdata |-> cdata, session |-> SessionOf(cmd.ctx)]

\* "check response" and "clear auth"
ChangeKeyFinish(newkeynum, cdata, cmd) ==
    [ctx |-> ChangeKeyClearAuth(cmd.ctx, newkeynum),
     res |-> IF cmd.res = 0 /\ cmd.resplen > 0 THEN -20 ELSE cmd.res,
     x |-> cmd.x, cdata |-> cdata, session |-> SessionOf(cmd.ctx)]

\* "send command": &pckcdata[1] with the length cdatalen
ChangeKeySend(c, newkeynum, keynodata, cdata, script) ==
    ChangeKeyFinish(newkeynum, cdata,
        DesfireChangeKeyCmd(c, MemRead(<<keynodata>> \o cdata, 0, Len(cdata)), script))

\* DesfireChangeKey(dctx, change_master_key, newkeynum, newkeytype, newkeyver, newkey,
\* oldkeytype, oldkey, verbose)
DesfireChangeKey(c, change_master_key, newkeynum, newkeytype, newkeyver, newkey, oldkeytype, oldkey, script) ==
    ChangeKeySend(c, newkeynum, ChangeKeyNo(change_master_key, newkeynum, newkeytype),
        ChangeKeyData(c, ChangeKeyNo(change_master_key, newkeynum, newkeytype), newkeynum,
                      newkeytype, newkeyver, newkey, oldkeytype, oldkey),
        script)

(***************************************************************************)
(* File settings.  MemLeToUint2byte / 3byte / 4byte (commonutil.c) and      *)
(* DesfireFileCommModeToCommMode (desfirecrypto.c) are outside this file:   *)
(* little-endian reads, and Plain for 0 and 2, MACed for 1, Enciphered for 3.*)
(***************************************************************************)
MemLeToUint2byte(data, off) == MemGet(data, off) + 256 * MemGet(data, off + 1)

MemLeToUint3byte(data, off) ==
    MemGet(data, off) + 256 * MemGet(data, off + 1) + 65536 * MemGet(data, off + 2)

MemLeToUint4byte(data, off) ==
    MemGet(data, off) + 256 * MemGet(data, off + 1) + 65536 * MemGet(data, off + 2)
    + 16777216 * MemGet(data, off + 3)

DesfireFileCommModeToCommMode(file_comm_mode) ==
    CASE file_comm_mode % 4 = 1 -> "DCMMACed"
      [] file_comm_mode % 4 = 3 -> "DCMEncrypted"
      [] OTHER -> "DCMPlain"

\* DesfireEncodeFileAcessMode(mode, r, w, rw, ch): the two bytes of mode
DesfireEncodeFileAcessMode(r, w, rw, ch) ==
    <<(ch % 16) + ((rw * 16) % 256) - ((rw * 16) % 16),
      (w % 16) + ((r * 16) % 256) - ((r * 16) % 16)>>

DesfireDecodeFileAcessMode_Swapped(data, off) ==
    [r |-> MemGet(data, off + 1) % 16, w |-> (MemGet(data, off + 1) \div 16) % 16,
     rw |-> (MemGet(data, off) \div 16) % 16, ch |-> MemGet(data, off) % 16]

\* DesfireDecodeFileAcessMode(mode, r, w, rw, ch) with mode = &data[off]
DesfireDecodeFileAcessMode(data, off) ==
    [r |-> (MemGet(data, off + 1) \div 16) % 16, w |-> MemGet(data, off + 1) % 16,
     rw |-> (MemGet(data, off) \div 16) % 16, ch |-> MemGet(data, off) % 16]

\* memset(fsettings, 0, sizeof(FileSettingsS)); of additionalAccessRights the
\* first additionalAccessRightsLength entries are kept
FileSettingsZero ==
    [fileType |-> 0, fileOption |-> 0, fileCommMode |-> 0, commMode |-> "DCMPlain",
     additionalAccessRightsEn |-> FALSE, rawAccessRights |-> 0,
     rAccess |-> 0, wAccess |-> 0, rwAccess |-> 0, chAccess |-> 0,
     fileSize |-> 0, lowerLimit |-> 0, upperLimit |-> 0, value |-> 0,
     limitedCredit |-> 0, recordSize |-> 0, maxRecordCount |-> 0,
     curRecordCount |-> 0, keyType |-> 0, keyVersion |-> 0,
     additionalAccessRightsLength |-> 0, additionalAccessRights |-> <<>>]

\* the fixed prefix: type, option byte, access rights
FillPrefix(data) ==
    [FileSettingsZero EXCEPT
        !.fileType = MemGet(data, 0),
        !.fileOption = MemGet(data, 1),
        !.fileCommMode = MemGet(data, 1) % 4,
        !.commMode = DesfireFileCommModeToCommMode(MemGet(data, 1) % 4),
        !.additionalAccessRightsEn = (MemGet(data, 1) \div 128) % 2 # 0,
        !.rawAccessRights = MemLeToUint2byte(data, 2),
        !.rAccess = DesfireDecodeFileAcessMode(data, 2).r,
        !.wAccess = DesfireDecodeFileAcessMode(data, 2).w,
        !.rwAccess = DesfireDecodeFileAcessMode(data, 2).rw,
        !.chAccess = DesfireDecodeFileAcessMode(data, 2).ch]

FillBody_UpperFirst(data, fs) ==
    IF fs.fileType = 2
    THEN [fs EXCEPT !.upperLimit = MemLeToUint4byte(data, 4),
                    !.lowerLimit = MemLeToUint4byte(data, 8),
                    !.value = MemLeToUint4byte(data, 12),
                    !.limitedCredit = MemGet(data, 16)]
    ELSE fs

\* switch (fsettings->fileType): the body
FillBody(data, fs) ==
    CASE fs.fileType \in {0, 1} -> [fs EXCEPT !.fileSize = MemLeToUint3byte(data, 4)]
      [] fs.fileType = 2 ->
             [fs EXCEPT !.lowerLimit = MemLeToUint4byte(data, 4),
                        !.upperLimit = MemLeToUint4byte(data, 8),
                        !.value = MemLeToUint4byte(data, 12),
                        !.limitedCredit = MemGet(data, 16)]
      [] fs.fileType \in {3, 4} ->
             [fs EXCEPT !.recordSize = MemLeToUint3byte(data, 4),
                        !.maxRecordCount = MemLeToUint3byte(data, 7),
                        !.curRecordCount = MemLeToUint3byte(data, 10)]
      [] fs.fileType = 5 ->
             [fs EXCEPT !.keyType = MemGet(data, 4), !.keyVersion = MemGet(data, 5)]
      [] OTHER -> fs

\* reclen: where the additional access rights start, 0 when the type has none
FillRecLen(fileType) ==
    CASE fileType \in {0, 1} -> 4 + 3
      [] fileType = 2 -> 4 + 13
      [] fileType \in {3, 4} -> 4 + 9
      [] OTHER -> 0

\* the additional access rights behind the body
FillAdditional(data, datalen, reclen, fs) ==
    IF /\ fs.additionalAccessRightsEn /\ reclen > 0 /\ datalen > reclen
       /\ datalen = reclen + MemGet(data, reclen) * 2
    THEN [fs EXCEPT !.additionalAccessRightsLength = MemGet(data, reclen),
                    !.additionalAccessRights =
                        [i \in 1..MemGet(data, reclen) |->
                            MemLeToUint2byte(data, reclen + 1 + (i - 1) * 2)]]
    ELSE fs

\* DesfireFillFileSettings(data, datalen, fsettings): data is the caller's buffer,
\* of which the first datalen bytes are the record
DesfireFillFileSettings(data, datalen) ==
    IF datalen < 4 THEN FileSettingsZero
    ELSE FillAdditional(data, datalen, FillRecLen(MemGet(data, 0)),
                        FillBody(data, FillPrefix(data)))

(***************************************************************************)
(* The card side of the environment: the answers a card can give           *)
(***************************************************************************)
\* an answer before framing: a status (a DESFire status byte, or an ISO status
\* word for the ISO command set) and data
Answer(status, data) == [status |-> status, data |-> data]

\* the transport reply that carries an answer in a command set's framing
CardFrame(cmdSet, a) ==
    CASE cmdSet = "DCCNative" -> Reply(PM3_SUCCESS, NativeRaw(a.status, a.data))
      [] cmdSet = "DCCNativeISO" -> Reply(PM3_SUCCESS, ApduRaw(a.data, 145, a.status))
      [] cmdSet = "DCCISO" ->
             Reply(PM3_SUCCESS, ApduRaw(a.data, a.status \div 256, a.status % 256))

\* the user pressing the button during an exchange
AbortReply == Reply(PM3_EOPABORTED, <<>>)

\* RndB / piccrnd and TI || capabilities of the modelled card
CardRnd == <<33, 34, 35, 36, 37, 38, 39, 40, 41, 42, 43, 44, 45, 46, 47, 48>>

CardTI == <<161, 162, 163, 164>>

\* the card's second answer: ek(RndA') under the IV the host's cryptogram left
HonestEncRndA(keyType, secureChannel, key, encRndB, rndlen) ==
    IF secureChannel = "DACd40" /\ keyType \in {"T_DES", "T_3DES"}
    THEN BlockEncrypt(key, rol(SubSeq(RndA0, 1, rndlen)))
    ELSE CbcEncrypt(key, EV1Part3(keyType, secureChannel, key, encRndB, rndlen).iv,
                    rol(SubSeq(RndA0, 1, rndlen)),
                    desfire_get_key_block_length(keyType)).out

HonestEV1Answers(keyType, secureChannel, key, encRndB, rndlen) ==
    <<Answer(MFDES_ADDITIONAL_FRAME, encRndB),
      Answer(MFDES_S_OPERATION_OK,
             HonestEncRndA(keyType, secureChannel, key, encRndB, rndlen))>>

\* what a card that knows the key answers to the two frames of
\* DesfireAuthenticateEV1
HonestEV1(c, secureChannel) ==
    HonestEV1Answers(c.keyType, secureChannel, AuthKeyData(c.keyType, c.key),
        IF c.keyType = "T_DES" /\ secureChannel = "DACd40"
        THEN BlockEncrypt(AuthKeyData(c.keyType, c.key),
                          SubSeq(CardRnd, 1, EV1ExpectedLen(c.keyType)))
        ELSE CbcEncrypt(AuthKeyData(c.keyType, c.key),
                        Zeros(desfire_get_key_block_length(c.keyType)),
                        SubSeq(CardRnd, 1, EV1ExpectedLen(c.keyType)),
                        desfire_get_key_block_length(c.keyType)).out,
        EV1ExpectedLen(c.keyType))

\* ... to the two frames of DesfireAuthenticateEV2
HonestEV2(c, firstauth) ==
    LET key == SubSeq(c.key, 1, 16)
        encRndB == aes_encode(Zeros(16), key, CardRnd)
        plain == IF firstauth THEN CardTI \o rol(RndA0) \o Zeros(12) ELSE rol(RndA0)
    IN  <<Answer(MFDES_ADDITIONAL_FRAME, encRndB),
          Answer(MFDES_S_OPERATION_OK, aes_encode(Zeros(16), key, plain))>>

HonestISOAnswers(c, rndlen, piccrnd, enc) ==
    <<Answer(36864, piccrnd), Answer(36864, <<>>),
      Answer(36864,
             CbcEncrypt(AuthKeyData(c.keyType, c.key),
                        MemRead(enc.ctx.IV, 0, desfire_get_key_block_length(c.keyType)),
                        rol(piccrnd) \o MemRead(hostrnd2, 0, rndlen),
                        desfire_get_key_block_length(c.keyType)).out)>>

\* ... to GET CHALLENGE, EXTERNAL AUTHENTICATE and INTERNAL AUTHENTICATE
HonestISO(c) ==
    HonestISOAnswers(c, DesfireGetRndLenForKey(c.keyType),
        SubSeq(CardRnd, 1, DesfireGetRndLenForKey(c.keyType)),
        DesfireCryptoEncDec(DesfireClearIV(c),
            MemRead(RndA0, 0, DesfireGetRndLenForKey(c.keyType))
            \o SubSeq(CardRnd, 1, DesfireGetRndLenForKey(c.keyType)), TRUE))

\* the answers an authentication run meets when the card knows the key
HonestAuth(c, secureChannel) ==
    IF c.cmdSet = "DCCISO" /\ secureChannel # "DACEV2" THEN HonestISO(c)
    ELSE IF secureChannel = "DACEV2" THEN HonestEV2(c, ~ DesfireIsAuthenticated(c))
    ELSE IF secureChannel \in {"DACd40", "DACEV1"} THEN HonestEV1(c, secureChannel)
    ELSE <<>>

\* the ways one answer can go wrong: an error status, a success status that is
\* not the expected one, no data, too little data, other data
BadAnswers(cmdSet, a) ==
    {[a EXCEPT !.status = IF cmdSet = "DCCISO" THEN 27266 ELSE MFDES_S_AUTHENTICATION_ERROR],
     [a EXCEPT !.data = <<>>],
     [a EXCEPT !.data = SubSeq(@, 1, Min(Len(@), 5))],
     [a EXCEPT !.data = [i \in 1..Len(@) |-> (@[i] + 1) % 256]],
     [a EXCEPT !.data = IF Len(@) = 8 THEN @ \o @
                        ELSE IF Len(@) > 8 THEN SubSeq(@, 1, 8) ELSE @]}
    \cup (IF cmdSet = "DCCISO" THEN {}
          ELSE {[a EXCEPT !.status = IF @ = MFDES_S_OPERATION_OK
                                     THEN MFDES_S_NO_CHANGES ELSE MFDES_S_OPERATION_OK]})

\* the scripts that follow the honest answers h up to a point and then time
\* out, are aborted by the user, or carry a bad answer
Scripts(cmdSet, h) ==
    {[i \in 1..Len(h) |-> CardFrame(cmdSet, h[i])]}
    \cup {[i \in 1..(k - 1) |-> CardFrame(cmdSet, h[i])] : k \in 1..Len(h)}
    \cup {[i \in 1..k |-> IF i < k THEN CardFrame(cmdSet, h[i]) ELSE AbortReply] :
             k \in 1..Len(h)}
    \cup UNION {{[i \in 1..k |-> CardFrame(cmdSet, IF i < k THEN h[i] ELSE b)] :
                     b \in BadAnswers(cmdSet, h[k])} : k \in 1..Len(h)}

\* the framing the card is answered in: the context's, Native for a command set
\* DesfireExchangeEx sends nothing in
FrameSet(c) == IF c.cmdSet = "DCCISO" THEN "DCCNative" ELSE c.cmdSet

\* the check value a card that shares the session puts behind its data
CardCheck(c, cmd, status, data) ==
    IF ChannelPassThrough(c, cmd) THEN <<>> ELSE ChannelCheck(c, status, data)

\* the answer of such a card
CardAnswer(c, cmd, status, data) == Answer(status, data \o CardCheck(c, cmd, status, data))

\* the scripts a command meets: an answer with data and what Scripts makes of it,
\* and a chained answer
CommandScripts(c, cmd) ==
    Scripts(FrameSet(c), <<CardAnswer(c, cmd, MFDES_S_OPERATION_OK, <<7, 9>>)>>)
    \cup {<<CardFrame(FrameSet(c), Answer(MFDES_ADDITIONAL_FRAME, <<7>>)),
            CardFrame(FrameSet(c),
                Answer(MFDES_S_OPERATION_OK,
                       <<9>> \o CardCheck(c, cmd, MFDES_S_OPERATION_OK, <<7, 9>>)))>>}

\* the scripts a select meets
SelectScripts(c) ==
    Scripts(FrameSet(c), <<Answer(MFDES_S_OPERATION_OK, <<>>)>>)
    \cup {<<CardFrame(FrameSet(c), Answer(MFDES_S_OPERATION_OK, <<7, 9>>))>>}

\* the replies an ISO SELECT FILE meets
ISOSelectReplies ==
    {CardFrame("DCCISO", Answer(36864, <<>>)), CardFrame("DCCISO", Answer(27266, <<>>)),
     TimeoutReply}

\* the scripts an authentication run meets
AuthScripts(c, secureChannel) ==
    Scripts(IF c.cmdSet = "DCCISO" /\ secureChannel # "DACEV2" THEN "DCCISO"
            ELSE FrameSet(c),
            HonestAuth(c, secureChannel))

(***************************************************************************)
(* The session as a state machine: the public operations applied to one    *)
(* context, in any order, against any card behaviour.                      *)
(***************************************************************************)
\* the keys the caller holds, in 24-byte buffers
Key0 == Zeros(DESFIRE_MAX_KEY_SIZE)

Key1 == <<2, 4, 6, 8, 10, 12, 14, 16, 18, 20, 22, 24, 26, 28, 30, 32, 34, 36, 38, 40, 42, 44, 46, 48>>

\* DesfireClearContext: the context after construction
InitCtx ==
    [secureChannel |-> "DACNone", cmdSet |-> "DCCNative", commMode |-> "DCMPlain",
     keyNum |-> 0, keyType |-> "T_DES", key |-> Key0,
     sessionKeyEnc |-> Zeros(DESFIRE_MAX_KEY_SIZE),
     sessionKeyMAC |-> Zeros(DESFIRE_MAX_KEY_SIZE),
     IV |-> Zeros(DESFIRE_MAX_KEY_SIZE), TI |-> Zeros(4), cmdCntr |-> 0,
     appSelected |-> FALSE]

\* the command byte the first frame of an exchange carries, -1 when none was sent
FirstCommand(cmdSet, sent) ==
    IF Len(sent) = 0 THEN -1
    ELSE IF cmdSet = "DCCNative" THEN sent[1].frame[1] ELSE sent[1].frame[2]

\* the DESFire status a reply of the card carries in a framing (-1: no answer)
ReplyStatus(cmdSet, reply) ==
    IF reply.res # PM3_SUCCESS \/ Len(reply.raw) < 2 THEN -1
    ELSE IF cmdSet = "DCCNative" THEN reply.raw[1]
    ELSE IF reply.raw[Len(reply.raw) - 1] = 145 THEN reply.raw[Len(reply.raw)]
    ELSE -1

\* the data bytes a reply of the card carries
ReplyData(cmdSet, reply) ==
    IF ReplyStatus(cmdSet, reply) = -1 THEN <<>>
    ELSE IF cmdSet = "DCCNative" THEN SubSeq(reply.raw, 2, Len(reply.raw) - 2)
    ELSE SubSeq(reply.raw, 1, Len(reply.raw) - 2)

\* the command byte of a frame on the wire: the first byte of a native frame, INS
\* of a wrapping APDU
FrameCommand(cmdSet, frame) == IF cmdSet = "DCCNative" THEN frame[1] ELSE frame[2]

\* the payload bytes of a frame on the wire: what follows the command byte of a
\* native frame, the Lc data bytes of a wrapping APDU
FramePayload(cmdSet, frame) ==
    IF cmdSet = "DCCNative" THEN Tail(frame)
    ELSE IF Len(frame) > 5 THEN SubSeq(frame, 6, 5 + frame[5])
    ELSE <<>>

\* the payload of the first frame sent
FirstPayload(cmdSet, sent) ==
    IF Len(sent) = 0 THEN <<>> ELSE FramePayload(cmdSet, sent[1].frame)

\* the 24-bit AID in the first frame a select sent (-1: nothing was sent)
WireAID(cmdSet, sent) ==
    IF Len(sent) = 0 THEN -1
    ELSE DesfireAIDByteToUint(SubSeq(FramePayload(cmdSet, sent[1].frame), 1, 3))

\* the AIDs a caller selects by number: the PICC, an application, and a number
\* that does not fit in 24 bits (the parameter is a uint32_t)
AidNumbers == {0, 1, 16777216}

\* the status word of a reply to an APDU (-1: no reply, or none of two bytes)
ReplySW(reply) ==
    IF reply.res # PM3_SUCCESS \/ Len(reply.raw) < 2 THEN -1
    ELSE reply.raw[Len(reply.raw) - 1] * 256 + reply.raw[Len(reply.raw)]

\* what a run of APDUs exchanged: INS of each APDU sent, and the status word and
\* the data of the reply to it
ISOTrace(sent, script) ==
    [i \in 1..Len(sent) |->
        [ins |-> sent[i].frame[2], sw |-> ReplySW(NextReply(script, i)),
         data |-> IF ReplySW(NextReply(script, i)) = -1 THEN <<>>
                  ELSE SubSeq(NextReply(script, i).raw, 1,
                              Len(NextReply(script, i).raw) - 2)]]

\* what a run of native frames exchanged: the command byte and the payload of
\* each frame sent, and the status and the data of the reply to it
NativeTrace(cmdSet, sent, script) ==
    [i \in 1..Len(sent) |->
        [cmd |-> FrameCommand(cmdSet, sent[i].frame),
         payload |-> FramePayload(cmdSet, sent[i].frame),
         status |-> ReplyStatus(cmdSet, NextReply(script, i)),
         data |-> ReplyData(cmdSet, NextReply(script, i))]]

\* what is observed of an operation: its name and result, whether the session was
\* authenticated when it started, whether it sent a frame, the transport result
\* of its last transport call, and what the operation adds (arg)
Observe(op, pre, res, sent, script, arg) ==
    [op |-> op, res |-> res, preAuth |-> DesfireIsAuthenticated(pre),
     sent |-> Len(sent) > 0,
     tres |-> IF Len(sent) = 0 THEN PM3_SUCCESS ELSE NextReply(script, Len(sent)).res,
     arg |-> arg]

NoObservation == Observe("none", InitCtx, PM3_SUCCESS, <<>>, <<>>, <<>>)

\* DesfireSetKey and DesfireSetCommandSet: what the caller sets the context up with
KeyChoices ==
    {<<0, "T_DES", Key0>>, <<1, "T_AES", Key1>>,
     <<1, "T_3DES", Key1>>, <<0, "T_3K3DES", Key1>>}

Init ==
    /\ \E k \in KeyChoices, cs \in CommandSets :
           ctx = [InitCtx EXCEPT !.keyNum = k[1], !.keyType = k[2], !.key = k[3],
                                 !.cmdSet = cs]
    /\ hist = [authOk |-> FALSE]
    /\ last = NoObservation
    /\ xr = [op |-> "none"]
    /\ tr = [op |-> "none"]
    /\ kr = [op |-> "none"]
    /\ fr = [op |-> "none"]
    /\ ar = [op |-> "none"]
    /\ lr = [pc |-> "idle"]

\* the caller holds no result it has not looked at: it may start an operation
Idle == last.op = "none"

\* the caller has looked at the result of the operation that returned
Return ==
    /\ ~ Idle
    /\ last' = NoObservation
    /\ UNCHANGED <<ctx, hist, xr, tr, kr, fr, ar, lr>>

\* DesfireSetCommMode: the caller's choice before a command
SetCommMode ==
    \E m \in CommModes :
        /\ Idle
        /\ ctx' = [ctx EXCEPT !.commMode = m]
        /\ last' = NoObservation
        /\ UNCHANGED <<hist, xr, tr, kr, fr, ar, lr>>

\* an explicit DesfireClearSession by the caller
ClearSession ==
    /\ Idle
    /\ ctx' = DesfireClearSession(ctx)
    /\ hist' = [hist EXCEPT !.authOk = FALSE]
    /\ last' = NoObservation
    /\ UNCHANGED <<xr, tr, kr, fr, ar, lr>>

\* the session is in the state DesfireClearSession leaves
SessionCleared(c) == c = DesfireClearSession(c)

SelectAID ==
    /\ Idle
    /\ \E aid1 \in {NULL, <<0, 0, 0>>, <<1, 0, 0>>}, aid2 \in {NULL},
       script \in SelectScripts(ctx) :
        \E r \in {DesfireSelectAID(ctx, aid1, aid2, script)} :
            /\ ctx' = r.ctx
            /\ hist' = [hist EXCEPT !.authOk = IF r.res = PM3_EINVARG THEN @ ELSE FALSE]
            /\ last' = Observe("SelectAID", ctx, r.res, r.x.sent, script,
                               <<WireAID(FrameSet(ctx), r.x.sent)>>)
            /\ UNCHANGED <<xr, tr, kr, fr, ar, lr>>

SelectAIDHex ==
    /\ Idle
    /\ \E aid1 \in AidNumbers, select_two \in BOOLEAN, script \in SelectScripts(ctx) :
        \E r \in {DesfireSelectAIDHex(ctx, aid1, select_two, 2, script)} :
            /\ ctx' = r.ctx
            /\ hist' = [hist EXCEPT !.authOk = FALSE]
            /\ last' = Observe("SelectAIDHex", ctx, r.res, r.x.sent, script,
                               <<WireAID(FrameSet(ctx), r.x.sent)>>)
            /\ UNCHANGED <<xr, tr, kr, fr, ar, lr>>

SelectAIDHexNoFieldOn ==
    /\ Idle
    /\ \E aid \in AidNumbers, script \in SelectScripts(ctx) :
        \E r \in {DesfireSelectAIDHexNoFieldOn(ctx, aid, script)} :
            /\ ctx' = r.ctx
            /\ hist' = [hist EXCEPT !.authOk = FALSE]
            /\ last' = Observe("SelectAIDHexNoFieldOn", ctx, r.res, r.x.sent, script,
                               <<WireAID(FrameSet(ctx), r.x.sent)>>)
            /\ UNCHANGED <<xr, tr, kr, fr, ar, lr>>

ISOSelect ==
    /\ Idle
    /\ \E cntr \in {"ISSMFDFEF", "ISSDFName"}, data \in {<<>>, <<63, 1>>},
       wantresp \in {TRUE}, reply \in ISOSelectReplies :
        \E r \in {DesfireISOSelect(ctx, cntr, data, wantresp, reply)} :
            /\ ctx' = r.ctx
            /\ hist' = [hist EXCEPT !.authOk = IF r.res = PM3_ESOFT THEN @ ELSE FALSE]
            /\ last' = Observe("ISOSelect", [ctx EXCEPT !.cmdSet = "DCCISO"], r.res,
                               r.sent, <<reply>>, <<>>)
            /\ UNCHANGED <<xr, tr, kr, fr, ar, lr>>

\* the run went through DesfireAuthenticateEV1, which clears the session first
AuthClears(c, secureChannel) ==
    ~ (c.cmdSet = "DCCISO" /\ secureChannel # "DACEV2")
    /\ secureChannel \in {"DACd40", "DACEV1"}

Authenticate ==
    /\ Idle
    /\ \E secureChannel \in SecureChannels :
        \E script \in AuthScripts(ctx, secureChannel) :
            \E r \in {DesfireAuthenticate(ctx, secureChannel, script)} :
                /\ ctx' = r.ctx
                /\ hist' = [hist EXCEPT !.authOk =
                               IF r.res = PM3_SUCCESS THEN TRUE
                               ELSE IF AuthClears(ctx, secureChannel) THEN FALSE ELSE @]
                /\ last' = Observe("Authenticate", ctx, r.res, r.sent, script,
                                   <<secureChannel, FirstCommand(FrameSet(ctx), r.sent),
                                     FirstPayload(FrameSet(ctx), r.sent),
                                     ReplyStatus(FrameSet(ctx), NextReply(script, 1)),
                                     Len(ReplyData(FrameSet(ctx), NextReply(script, 1))),
                                     Len(r.sent),
                                     IF ctx.cmdSet = "DCCISO" /\ secureChannel # "DACEV2"
                                     THEN ISOTrace(r.sent, script) ELSE <<>>,
                                     IF ctx.cmdSet = "DCCISO" /\ secureChannel # "DACEV2"
                                     THEN <<>>
                                     ELSE NativeTrace(FrameSet(ctx), r.sent, script)>>)
                /\ UNCHANGED <<xr, tr, kr, fr, ar, lr>>

\* the scripts the authentication of DesfireSelectAndAuthenticateEx meets after
\* the select sel
SelectAuthScripts(sel, secureChannel, noauth, isosw) ==
    IF sel.res # PM3_SUCCESS \/ noauth THEN {<<>>}
    ELSE AuthScripts(SelectAuthRestore(sel, isosw), secureChannel)

SelectAndAuthenticate ==
    /\ Idle
    /\ \E secureChannel \in SecureChannels, aid \in {1}, noauth \in BOOLEAN :
        \E script1 \in SelectScripts(SelectAuthSwitch(ctx)) :
            \E script2 \in SelectAuthScripts(SelectAuthSelect(ctx, aid, script1),
                                             secureChannel, noauth, ctx.cmdSet = "DCCISO") :
                \E r \in {DesfireSelectAndAuthenticateEx(ctx, secureChannel, aid, noauth,
                                                         script1, script2)} :
                    /\ ctx' = r.ctx
                    /\ hist' = [hist EXCEPT !.authOk =
                                   r.authRun /\ r.auth.res = PM3_SUCCESS]
                    /\ last' = Observe("SelectAndAuthenticate", ctx, r.res,
                                       r.sel.x.sent \o r.auth.sent, script1 \o script2,
                                       <<secureChannel, noauth, r.sel.res, r.authRun,
                                         r.auth.res, Len(r.auth.sent),
                                         DesfireIsAuthenticated(r.auth.ctx)>>)
                    /\ UNCHANGED <<xr, tr, kr, fr, ar, lr>>

Command ==
    /\ Idle
    /\ ctx.cmdCntr < MaxCmdCntr
    /\ \E cmd \in {MFDES_GET_VERSION}, data \in {<<1, 2, 3>>}, checklength \in {-1, 0} :
        \E script \in CommandScripts(ctx, cmd) :
            \E r \in {DesfireCommandEx(ctx, cmd, data, script, checklength, 0)} :
                /\ ctx' = r.ctx
                /\ hist' = [hist EXCEPT !.authOk = IF SessionCleared(r.ctx) THEN FALSE ELSE @]
                /\ last' = Observe("Command", ctx, r.res, r.x.sent, script,
                                   <<FirstCommand(ctx.cmdSet, r.x.sent) = cmd,
                                     checklength < 0 /\ script # <<>>
                                     /\ script[1] = CardFrame(FrameSet(ctx),
                                            Answer(MFDES_S_OPERATION_OK, <<7, 9>>))>>)
                /\ UNCHANGED <<xr, tr, kr, fr, ar, lr>>

ChangeKey ==
    /\ Idle
    /\ ctx.cmdCntr < MaxCmdCntr
    /\ \E change_master_key \in {FALSE}, newkeynum \in {0, 1}, newkeytype \in {"T_AES"},
          newkeyver \in {1}, oldkey \in {Key0} :
        \E script \in CommandScripts(ctx, MFDES_CHANGE_KEY) :
            \E r \in {DesfireChangeKey(ctx, change_master_key, newkeynum, newkeytype,
                                         newkeyver, Key1, ctx.keyType, oldkey, script)} :
                /\ ctx' = r.ctx
                /\ hist' = [hist EXCEPT !.authOk = IF SessionCleared(r.ctx) THEN FALSE ELSE @]
                /\ last' = Observe("ChangeKey", ctx, r.res, r.x.sent, script,
                                   <<newkeynum = ctx.keyNum, r.session>>)
                /\ UNCHANGED <<xr, tr, kr, fr, ar, lr>>

NextS ==
    \/ SetCommMode
    \/ ClearSession
    \/ SelectAID
    \/ SelectAIDHex
    \/ SelectAIDHexNoFieldOn
    \/ ISOSelect
    \/ Authenticate
    \/ SelectAndAuthenticate
    \/ Command
    \/ ChangeKey
    \/ Return

Spec == Init /\ [][NextS]_vars

(***************************************************************************)
(* The transport wrappers on their own: one call of DESFIRESendRaw or      *)
(* DESFIRESendApduEx against any reply of the reader.                      *)
(***************************************************************************)
\* the DESFire statuses drawn: the four the wrappers accept, and errors
TransportStatuses ==
    {MFDES_S_OPERATION_OK, MFDES_S_NO_CHANGES, MFDES_S_SIGNATURE, MFDES_S_ADDITIONAL_FRAME,
     MFDES_S_AUTHENTICATION_ERROR, 1, 157, 190, 255}

TransportData == {<<>>, <<7>>, <<7, 9>>}

\* what the reader hands back to DESFIRESendRaw: whole frames, frames cut short
\* (nothing, a status alone, a status and one byte), and failures
RawReplies ==
    {Reply(PM3_SUCCESS, NativeRaw(s, d)) : s \in TransportStatuses, d \in TransportData}
    \cup {Reply(PM3_SUCCESS, raw) : raw \in {<<>>, <<0>>, <<174>>, <<0, 0>>, <<175, 1>>}}
    \cup {TimeoutReply, AbortReply}

\* what the reader hands back to DESFIRESendApduEx: 0x91xx answers, ISO 7816
\* status words, answers cut short, and failures
ApduReplies ==
    {Reply(PM3_SUCCESS, ApduRaw(d, 145, s)) : s \in TransportStatuses, d \in TransportData}
    \cup {Reply(PM3_SUCCESS, ApduRaw(d, 144, 0)) : d \in TransportData}
    \cup {Reply(PM3_SUCCESS, raw) : raw \in {<<>>, <<145>>, <<106, 130>>, <<105, 130>>}}
    \cup {TimeoutReply, AbortReply}

SendRaw ==
    \E activate_field \in BOOLEAN, reply \in RawReplies :
        \E r \in {DESFIRESendRaw(activate_field, <<MFDES_GET_VERSION>>, reply)} :
            /\ tr' = [op |-> "DESFIRESendRaw", activate_field |-> activate_field,
                      reply |-> reply, r |-> r]
            /\ UNCHANGED <<ctx, hist, last, xr, kr, fr, ar, lr>>

SendApduEx ==
    \E activate_field \in BOOLEAN, le \in {0, APDU_INCLUDE_LE_00}, reply \in ApduReplies :
        \E r \in {DESFIRESendApduEx(activate_field,
                      Apdu(MFDES_NATIVE_ISO7816_WRAP_CLA, MFDES_GET_VERSION, 0, 0, 0, <<>>),
                      le, reply)} :
            /\ tr' = [op |-> "DESFIRESendApduEx", activate_field |-> activate_field,
                      reply |-> reply, r |-> r]
            /\ UNCHANGED <<ctx, hist, last, xr, kr, fr, ar, lr>>

NextT ==
    \/ SendRaw
    \/ SendApduEx

SpecT == Init /\ [][NextT]_vars

(***************************************************************************)
(* The frame exchange on its own: one call of DesfireExchangeEx on the     *)
(* context, against any card script.                                       *)
(***************************************************************************)
\* the replies a script is made of: continuation and final answers with and
\* without data, an error status, a timeout, the user's abort
ExchangeReplies(cmdSet) ==
    {CardFrame(cmdSet, Answer(s, d)) :
        s \in {MFDES_S_OPERATION_OK, MFDES_ADDITIONAL_FRAME}, d \in {<<>>, <<7>>}}
    \cup {CardFrame(cmdSet, Answer(MFDES_ADDITIONAL_FRAME, <<8, 9>>)),
          CardFrame(cmdSet, Answer(MFDES_S_AUTHENTICATION_ERROR, <<>>)),
          TimeoutReply, AbortReply}

\* all scripts of at most MaxScript replies
ExchangeScripts(cmdSet) ==
    UNION {[1..n -> ExchangeReplies(cmdSet)] : n \in 0..MaxScript}

\* n payload bytes, each one different from its neighbours
Ramp(n) == [i \in 1..n |-> i]

\* a short payload, and payloads around the frame size: one byte less than
\* DESFIRE_TX_FRAME_MAX_LEN, exactly that many, and up to MaxExtra bytes more
ExchangeData ==
    {Ramp(3)} \cup {Ramp(DESFIRE_TX_FRAME_MAX_LEN + e) : e \in -1..MaxExtra}

\* the caller has read the out parameters of the exchange that returned
ExchangeReturn ==
    /\ xr.op # "none"
    /\ xr' = [op |-> "none"]
    /\ UNCHANGED <<ctx, hist, last, tr, kr, fr, ar, lr>>

ExchangeEx ==
    /\ xr.op = "none"
    /\ \E activate_field \in BOOLEAN, data \in ExchangeData, enable_chaining \in BOOLEAN,
          splitbysize \in {0, 3} :
        \E script \in ExchangeScripts(FrameSet(ctx)) :
            \E r \in {DesfireExchangeEx(activate_field, ctx, MFDES_GET_VERSION, data,
                                        script, enable_chaining, splitbysize)} :
                /\ xr' = [op |-> "DesfireExchangeEx", cmdSet |-> ctx.cmdSet,
                          activate_field |-> activate_field, data |-> data,
                          datalen |-> Len(data),
                          script |-> script, enable_chaining |-> enable_chaining,
                          splitbysize |-> splitbysize, res |-> r.res,
                          respcode |-> r.respcode, resp |-> r.resp,
                          resplen |-> r.resplen, x |-> r.x]
                /\ ctx' = r.ctx
                /\ UNCHANGED <<hist, last, tr, kr, fr, ar, lr>>

\* sizeof(databuf) of DesfireExchangeEx, the response buffer it passes down
ExchangeBufferSize == 250 * 5

\* the data bytes of one frame of a long chained response
LongFrameLen == 250

\* chains of up to ExchangeBufferSize / LongFrameLen + 1 long ADDITIONAL_FRAME
\* answers, closed by a short OPERATION_OK answer or left open
LongScripts(cmdSet) ==
    {[i \in 1..n |->
         IF i = n /\ closed
         THEN CardFrame(cmdSet, Answer(MFDES_S_OPERATION_OK, <<7>>))
         ELSE CardFrame(cmdSet, Answer(MFDES_ADDITIONAL_FRAME, Ramp(LongFrameLen)))] :
        n \in 1..((ExchangeBufferSize \div LongFrameLen) + 1), closed \in BOOLEAN}

\* DesfireExchangeEx receiving a long chained response
ExchangeLong ==
    /\ xr.op = "none"
    /\ \E activate_field \in {FALSE}, data \in {Ramp(3)}, enable_chaining \in {TRUE},
          splitbysize \in {0} :
        \E script \in LongScripts(FrameSet(ctx)) :
            \E r \in {DesfireExchangeEx(activate_field, ctx, MFDES_GET_VERSION, data,
                                        script, enable_chaining, splitbysize)} :
                /\ xr' = [op |-> "DesfireExchangeEx", cmdSet |-> ctx.cmdSet,
                          activate_field |-> activate_field, data |-> data,
                          datalen |-> Len(data),
                          script |-> script, enable_chaining |-> enable_chaining,
                          splitbysize |-> splitbysize, res |-> r.res,
                          respcode |-> r.respcode, resp |-> r.resp,
                          resplen |-> r.resplen, x |-> r.x]
                /\ ctx' = r.ctx
                /\ UNCHANGED <<hist, last, tr, kr, fr, ar, lr>>

\* the response lengths a typed command is asked to check (none, and 0 to 2)
CheckLengths == {-1, 0, 1, 2}

\* one typed command: DesfireCommandEx and what its exchange returned to it
CommandEx ==
    /\ xr.op = "none"
    /\ \E checklength \in CheckLengths, splitbysize \in {0, 3} :
        \E script \in ExchangeScripts(FrameSet(ctx)) :
            \E r \in {DesfireCommandEx(ctx, MFDES_GET_VERSION, Ramp(3), script,
                                       checklength, splitbysize)} :
                /\ xr' = [op |-> "DesfireCommandEx", cmdSet |-> ctx.cmdSet,
                          script |-> script, checklength |-> checklength,
                          splitbysize |-> splitbysize, e |-> r.e, res |-> r.res,
                          resp |-> r.resp, resplen |-> r.resplen]
                /\ ctx' = r.ctx
                /\ UNCHANGED <<hist, last, tr, kr, fr, ar, lr>>

NextX ==
    \/ ExchangeEx
    \/ ExchangeLong
    \/ CommandEx
    \/ ExchangeReturn

SpecX == Init /\ [][NextX]_vars

(***************************************************************************)
(* The key-change cryptogram on its own: one call of DesfireChangeKey in a  *)
(* context whose secure channel is any of the four.                        *)
(***************************************************************************)
\* a second key the caller holds
Key2 == <<255, 3, 128, 5, 1, 0, 9, 77, 64, 32, 16, 8, 4, 2, 1, 0, 90, 91, 92, 93, 94, 95, 96, 97>>

\* key numbers: the two a context names, and one with bits above the low six
KeyNumbers == {0, 1, 77}

\* key versions: two that are encoded, and one that switches the encoding off
KeyVersions == {1, 170, 256}

\* the caller has read the result of the key change
ChangeKeyReturn ==
    /\ kr.op # "none"
    /\ kr' = [op |-> "none"]
    /\ UNCHANGED <<ctx, hist, last, xr, tr, fr, ar, lr>>

ChangeKeyCall ==
    /\ kr.op = "none"
    /\ \E secureChannel \in SecureChannels, change_master_key \in BOOLEAN,
          newkeynum \in KeyNumbers, newkeytype \in KeyTypes, newkeyver \in KeyVersions,
          newkey \in {Key1, Key2}, oldkeytype \in KeyTypes, oldkey \in {Key1} :
        \E r \in {DesfireChangeKey([ctx EXCEPT !.secureChannel = secureChannel],
                                   change_master_key, newkeynum, newkeytype, newkeyver,
                                   newkey, oldkeytype, oldkey,
                                   <<CardFrame(FrameSet(ctx),
                                               Answer(MFDES_S_OPERATION_OK, <<>>))>>)} :
            /\ kr' = [op |-> "DesfireChangeKey", secureChannel |-> secureChannel,
                      change_master_key |-> change_master_key, newkeynum |-> newkeynum,
                      newkeytype |-> newkeytype, newkeyver |-> newkeyver,
                      newkey |-> newkey, oldkeytype |-> oldkeytype, oldkey |-> oldkey,
                      cdata |-> r.cdata, res |-> r.res,
                      sent |-> FirstPayload(FrameSet(ctx), r.x.sent)]
            /\ UNCHANGED <<ctx, hist, last, xr, tr, fr, ar, lr>>

NextK ==
    \/ ChangeKeyCall
    \/ ChangeKeyReturn

SpecK == Init /\ [][NextK]_vars

(***************************************************************************)
(* The file-settings decoder on its own: one call of                       *)
(* DesfireFillFileSettings on a record a card may answer GET_FILE_SETTINGS  *)
(* with, laid out as the card lays it out.                                 *)
(***************************************************************************)
\* the most additional access rights a record carries
MaxRights == 2

\* n as k little-endian bytes
UintToMemLe(n, k) == [i \in 1..k |-> (n \div (256 ^ (i - 1))) % 256]

RECURSIVE RightsBytes(_)
RightsBytes(rights) ==
    IF rights = <<>> THEN <<>>
    ELSE UintToMemLe(Head(rights), 2) \o RightsBytes(Tail(rights))

\* the body of a record of a file type, from three numbers and a flags byte
RecordBody(type, n, flags) ==
    CASE type \in {0, 1} -> UintToMemLe(n[1], 3)
      [] type = 2 -> UintToMemLe(n[1], 4) \o UintToMemLe(n[2], 4)
                     \o UintToMemLe(n[3], 4) \o <<flags>>
      [] type \in {3, 4} -> UintToMemLe(n[1], 3) \o UintToMemLe(n[2], 3)
                            \o UintToMemLe(n[3], 3)
      [] OTHER -> <<n[1] % 256, n[2] % 256>>

\* the record: prefix, body, and behind an option byte with bit 7 the count and
\* the additional access rights
FileRecord(type, option, access, n, flags, rights) ==
    <<type, option>>
    \o DesfireEncodeFileAcessMode(access[1], access[2], access[3], access[4])
    \o RecordBody(type, n, flags)
    \o (IF option >= 128 THEN <<Len(rights)>> \o RightsBytes(rights) ELSE <<>>)

FileTypes == 0..5

FileOptions == {0, 3, 129, 130}

\* r, w, rw, ch
AccessChoices == {<<14, 14, 14, 14>>, <<1, 2, 3, 4>>}

BodyNumbers == {<<16, 0, 16>>, <<16909060, 16, 0>>, <<0, 16909060, 84281096>>}

RightsValues == {4660, 57585}

RightsLists == UNION {[1..k -> RightsValues] : k \in 0..MaxRights}

\* the caller has read the settings
FillReturn ==
    /\ fr.op # "none"
    /\ fr' = [op |-> "none"]
    /\ UNCHANGED <<ctx, hist, last, xr, tr, kr, ar, lr>>

\* the record arrives whole or with its last byte missing (cut); behind it the
\* caller's buffer holds what it held before (stale)
FillFileSettings ==
    /\ fr.op = "none"
    /\ \E type \in FileTypes, option \in FileOptions, access \in AccessChoices,
          n \in BodyNumbers, flags \in {0, 1}, rights \in RightsLists,
          cut \in {0, 1}, stale \in {0, 165} :
        /\ option < 128 => rights = <<>>
        /\ \E rec \in {FileRecord(type, option, access, n, flags, rights)} :
            fr' = [op |-> "DesfireFillFileSettings", type |-> type, option |-> option,
                   access |-> access, n |-> n, flags |-> flags, rights |-> rights,
                   cut |-> cut, stale |-> stale, datalen |-> Len(rec) - cut,
                   data |-> SubSeq(rec, 1, Len(rec) - cut) \o Fill(4, stale),
                   fs |-> DesfireFillFileSettings(
                              SubSeq(rec, 1, Len(rec) - cut) \o Fill(4, stale),
                              Len(rec) - cut)]
        /\ UNCHANGED <<ctx, hist, last, xr, tr, kr, ar, lr>>

NextF ==
    \/ FillFileSettings
    \/ FillReturn

SpecF == Init /\ [][NextF]_vars

(***************************************************************************)
(* The AID conversions on their own: a number to its three bytes and back, *)
(* three bytes to their number and back.                                   *)
(***************************************************************************)
\* the byte values AIDs are made of
AidBytes == {0, 1, 127, 128, 255}

\* the numbers a caller passes: every 24-bit number made of these bytes, and
\* numbers with a bit above the 24th (the parameter is a uint32_t)
AidValues ==
    {b0 + 256 * b1 + 65536 * b2 + 16777216 * h :
        b0 \in AidBytes, b1 \in AidBytes, b2 \in AidBytes, h \in {0, 1}}

AIDUintToByteAndBack ==
    \E a \in AidValues :
        /\ ar' = [op |-> "DesfireAIDUintToByte", aid |-> a,
                  data |-> DesfireAIDUintToByte(a),
                  back |-> DesfireAIDByteToUint(DesfireAIDUintToByte(a))]
        /\ UNCHANGED <<ctx, hist, last, xr, tr, kr, fr, lr>>

AIDByteToUintAndBack ==
    \E b \in [1..3 -> AidBytes] :
        /\ ar' = [op |-> "DesfireAIDByteToUint", data |-> b,
                  aid |-> DesfireAIDByteToUint(b),
                  back |-> DesfireAIDUintToByte(DesfireAIDByteToUint(b))]
        /\ UNCHANGED <<ctx, hist, last, xr, tr, kr, fr, lr>>

NextA ==
    \/ AIDUintToByteAndBack
    \/ AIDByteToUintAndBack

SpecA == Init /\ [][NextA]_vars

(***************************************************************************)
(* The loops of DesfireExchangeNative and DesfireExchangeISONative, one    *)
(* transport call per step.  lr is the position of one call: the loop it   *)
(* is in (pc), cdatalen / datalen (total) and sentdatalen, whether the     *)
(* last status was ADDITIONAL_FRAME, and a count of the frames sent: 0     *)
(* before the first frame, then 1..MaxFrames round and round, so that a    *)
(* card that answers ADDITIONAL_FRAME for ever is a cycle of the model.    *)
(***************************************************************************)
\* the count of frames starts again at 1 after this number
MaxFrames == 3

\* the count after one more frame
NextFrame(n) == (n % MaxFrames) + 1

\* what a transport call gives the loop: it failed (the transport, or an error
\* status through DESFIRESendRaw), or it returned a status (ADDITIONAL_FRAME or
\* another one) with or without data
LoopAnswers ==
    {[failed |-> TRUE, af |-> FALSE, data |-> FALSE]}
    \cup {[failed |-> FALSE, af |-> a, data |-> d] : a, d \in BOOLEAN}

\* payload lengths: none, short, around the frame size, more than two frames
LoopLens ==
    {0, 3, DESFIRE_TX_FRAME_MAX_LEN - 1, DESFIRE_TX_FRAME_MAX_LEN,
     DESFIRE_TX_FRAME_MAX_LEN + 1, 2 * DESFIRE_TX_FRAME_MAX_LEN + 1}

\* entry of the function: cdatalen = datalen + 1 (Native), datalen (NativeISO)
LoopCall ==
    /\ lr.pc = "idle"
    /\ \E cmdSet \in {"DCCNative", "DCCNativeISO"}, datalen \in LoopLens,
          enable_chaining \in BOOLEAN :
           lr' = [pc |-> "tx", cmdSet |-> cmdSet,
                  total |-> IF cmdSet = "DCCNative" THEN datalen + 1 ELSE datalen,
                  sentdatalen |-> 0, enable_chaining |-> enable_chaining,
                  af |-> FALSE, frames |-> 0, res |-> PM3_SUCCESS]
    /\ UNCHANGED <<ctx, hist, last, xr, tr, kr, fr, ar>>

\* one pass of "while (cdatalen >= sentdatalen)" with the answer a
LoopTxWith(a) ==
    /\ lr.pc = "tx"
    /\ LET len == Min(lr.total - lr.sentdatalen, DESFIRE_TX_FRAME_MAX_LEN)
           n == NextFrame(lr.frames)
       IN  lr' = IF lr.total < lr.sentdatalen
                 THEN [lr EXCEPT !.pc = "rxfirst"]
                 ELSE IF a.failed
                 THEN [lr EXCEPT !.pc = "done", !.res = PM3_ETIMEOUT, !.frames = n]
                 ELSE [lr EXCEPT !.sentdatalen = @ + len, !.af = a.af, !.frames = n,
                                 !.pc = IF ~ a.af \/ a.data THEN "rxfirst" ELSE "tx"]
    /\ UNCHANGED <<ctx, hist, last, xr, tr, kr, fr, ar>>

LoopTx == \E a \in LoopAnswers : LoopTxWith(a)

\* the TX pass whose answer is not ADDITIONAL_FRAME, or whose transport call failed
LoopTxNotAF == \E a \in {b \in LoopAnswers : ~ b.af} : LoopTxWith(a)

\* "rx": the first response is copied; without chaining the function returns
LoopRxFirst ==
    /\ lr.pc = "rxfirst"
    /\ lr' = [lr EXCEPT !.pc = IF lr.enable_chaining /\ lr.af THEN "rx" ELSE "done"]
    /\ UNCHANGED <<ctx, hist, last, xr, tr, kr, fr, ar>>

\* one pass of "while (rcode == MFDES_ADDITIONAL_FRAME)" with the answer a
LoopRxWith(a) ==
    /\ lr.pc = "rx"
    /\ lr' = IF a.failed
             THEN [lr EXCEPT !.pc = "done", !.res = PM3_ETIMEOUT,
                             !.frames = NextFrame(@)]
             ELSE [lr EXCEPT !.af = a.af, !.frames = NextFrame(@),
                             !.pc = IF a.af THEN "rx" ELSE "done"]
    /\ UNCHANGED <<ctx, hist, last, xr, tr, kr, fr, ar>>

LoopRx == \E a \in LoopAnswers : LoopRxWith(a)

LoopRxNotAF == \E a \in {b \in LoopAnswers : ~ b.af} : LoopRxWith(a)

\* the caller has the result
LoopReturn ==
    /\ lr.pc = "done"
    /\ lr' = [pc |-> "idle"]
    /\ UNCHANGED <<ctx, hist, last, xr, tr, kr, fr, ar>>

NextL ==
    \/ LoopCall
    \/ LoopTx
    \/ LoopRxFirst
    \/ LoopRx
    \/ LoopReturn

\* the function keeps running, and the card answers with a status other than
\* ADDITIONAL_FRAME, or the transport fails, sooner or later
SpecL ==
    /\ Init /\ [][NextL]_vars
    /\ WF_vars(LoopTx) /\ WF_vars(LoopRxFirst) /\ WF_vars(LoopRx)
    /\ SF_vars(LoopTxNotAF) /\ SF_vars(LoopRxNotAF)

(***************************************************************************)
(* Properties                                                              *)
(***************************************************************************)
\* the session keys of the context are all zero
SessionKeysZero == IsZero(ctx.sessionKeyEnc) /\ IsZero(ctx.sessionKeyMAC)

\* C1: after DesfireSelectAID or DesfireSelectAIDHexNoFieldOn has returned with
\* any outcome of its exchange (success, card error status, non-empty response,
\* transport failure), secureChannel is None and both session keys are all zero.
C1_SelectLeavesUnauthAndKeysZero ==
    (last.op \in {"SelectAID", "SelectAIDHex", "SelectAIDHexNoFieldOn"} /\ last.res # PM3_EINVARG)
        => (ctx.secureChannel = "DACNone" /\ SessionKeysZero)

\* C2: a DesfireAuthenticate call that ran one of the D40, EV1, EV2 first, EV2
\* non-first or ISO variants and returned non-zero leaves secureChannel = None,
\* whether or not the session was authenticated before the call.
C2_FailedAuthLeavesUnauth ==
    (last.op = "Authenticate" /\ last.res # PM3_SUCCESS /\ last.res # 100)
        => ctx.secureChannel = "DACNone"

\* C3: when a D40 / EV1 authentication run fails after the card's answer to the
\* second frame was received (reasons 10 and 11), sessionKeyEnc and sessionKeyMAC
\* are all zero: no key derived from RndA and RndB stays in the context.
C3_LateAuthFailureWipesKeys ==
    (last.op = "Authenticate" /\ last.arg[1] \in {"DACd40", "DACEV1"}
     /\ last.res \in {10, 11})
        => SessionKeysZero

\* C4: in every reachable state secureChannel differs from None if and only if an
\* authentication has completed successfully since the last session reset or
\* select.
C4_ChannelIffAuthenticated ==
    (ctx.secureChannel # "DACNone") <=> hist.authOk

\* C5: a DesfireChangeKey call with newkeynum equal to the key number of the
\* authenticated session that completes successfully leaves the session cleared
\* (secureChannel = None, session keys zero).
C5_ChangeOwnKeyClearsSession ==
    (last.op = "ChangeKey" /\ last.preAuth /\ last.arg[1] /\ last.res = PM3_SUCCESS)
        => (ctx.secureChannel = "DACNone" /\ SessionKeysZero)

\* a successful change of the authenticated key has happened
C5_Witness ==
    /\ last.op = "ChangeKey" /\ last.preAuth /\ last.arg[1]
    /\ last.res = PM3_SUCCESS /\ last.sent

\* C6: a command exchanged in MACed mode while the session is not authenticated
\* fails and no frame is transmitted to the card.
C6_MACedCommandRefusedWhenUnauth ==
    (last.op = "Command" /\ ~ last.preAuth /\ ctx.commMode = "DCMMACed")
        => (last.res # PM3_SUCCESS /\ ~ last.sent)

\* C7: when the last transport call of an operation on an authenticated session
\* returned a timeout or a user abort, the operation returns that error and
\* secureChannel is None afterwards.
C7_TransportErrorTearsDownSession ==
    (last.op # "none" /\ last.preAuth /\ last.sent
     /\ last.tres \in {PM3_ETIMEOUT, PM3_EOPABORTED})
        => (last.res = last.tres /\ ctx.secureChannel = "DACNone")

\* what the transport wrapper of a command set returns for a reply
WrapperResult(cmdSet, reply) ==
    IF cmdSet = "DCCNative"
    THEN DESFIRESendRaw(FALSE, <<MFDES_ADDITIONAL_FRAME>>, reply).res
    ELSE DESFIRESendApdu(FALSE, ISOContinue, reply).res

RECURSIVE FirstFailure(_, _, _)
\* the first transport call from the k-th on that returns a non-success result
\* (a script that is used up times out)
FirstFailure(cmdSet, script, k) ==
    IF WrapperResult(cmdSet, NextReply(script, k)) # PM3_SUCCESS THEN k
    ELSE FirstFailure(cmdSet, script, k + 1)

\* C8: when a transport call of an exchange (native or ISO-wrapped, transmit or
\* receive phase) has returned a non-success result, it is the last transport
\* call of the exchange, every frame sent belongs to a call up to it, and
\* DesfireExchangeEx returns that call's result code.
C8_NoFrameAfterTransportFailure ==
    (xr.op = "DesfireExchangeEx" /\ xr.cmdSet # "DCCISO"
     /\ xr.x.nreplies >= FirstFailure(xr.cmdSet, xr.script, 1))
        => /\ xr.x.nreplies = FirstFailure(xr.cmdSet, xr.script, 1)
           /\ Len(xr.x.sent) = xr.x.nreplies
           /\ xr.res = WrapperResult(xr.cmdSet, NextReply(xr.script, xr.x.nreplies))

\* the user aborted the third transport call, in the receive phase
C8_Witness ==
    /\ xr.op = "DesfireExchangeEx" /\ xr.x.phase = "rx"
    /\ xr.x.nreplies = 3 /\ FirstFailure(xr.cmdSet, xr.script, 1) = 3
    /\ xr.res = PM3_EOPABORTED

\* the number of data bytes a reply carries in a command set's framing
ReplyDataLen(cmdSet, reply) ==
    Len(reply.raw) - (IF cmdSet = "DCCNative" THEN 3 ELSE 2)

RECURSIVE DataLenBefore(_, _, _)
\* the data bytes of the replies before the k-th
DataLenBefore(cmdSet, script, k) ==
    IF k <= 1 THEN 0
    ELSE ReplyDataLen(cmdSet, script[k - 1]) + DataLenBefore(cmdSet, script, k - 1)

\* the k-th reply of the script carries a card status the wrappers reject
ErrorStatusAt(cmdSet, script, k) ==
    /\ k <= Len(script)
    /\ script[k].res = PM3_SUCCESS
    /\ WrapperResult(cmdSet, script[k]) = PM3_EAPDU_FAIL

\* C9: when frame k of a chained receive carries a non-successful card status, no
\* further continuation frame is sent and the exchange reports as response length
\* the total data length of the frames 1..k-1.
C9_ErrorStatusKeepsReceivedLength ==
    (xr.op = "DesfireExchangeEx" /\ xr.enable_chaining /\ xr.splitbysize = 0
     /\ xr.x.phase = "rx" /\ xr.x.nreplies >= 2
     /\ ErrorStatusAt(xr.cmdSet, xr.script, xr.x.nreplies))
        => /\ Len(xr.x.sent) = xr.x.nreplies
           /\ xr.x.resplen = DataLenBefore(xr.cmdSet, xr.script, xr.x.nreplies)

\* the DESFire status a transport reply carries
TransportStatus ==
    IF tr.op = "DESFIRESendRaw" THEN tr.reply.raw[1] ELSE tr.reply.raw[Len(tr.reply.raw)]

\* the reply of the call is not empty and carries a DESFire status: a native frame
\* the wrapper could take apart, or an APDU answer with SW1 = 0x91
TransportHasStatus ==
    /\ tr.op \in {"DESFIRESendRaw", "DESFIRESendApduEx"}
    /\ tr.reply.res = PM3_SUCCESS
    /\ IF tr.op = "DESFIRESendRaw"
       THEN Len(tr.reply.raw) >= 1 /\ ~ tr.r.ub
       ELSE Len(tr.reply.raw) >= 2 /\ tr.reply.raw[Len(tr.reply.raw) - 1] = 145

IsAck(cmdSet, reply) ==
    ReplyStatus(cmdSet, reply) = MFDES_ADDITIONAL_FRAME /\ ReplyData(cmdSet, reply) = <<>>

RECURSIVE FirstNonAck(_, _, _)
\* the index, from k on, of the first reply that is not such a request
FirstNonAck(cmdSet, script, k) ==
    IF k > Len(script) \/ ~ IsAck(cmdSet, script[k]) THEN k
    ELSE FirstNonAck(cmdSet, script, k + 1)

RECURSIVE TxPayload(_, _, _)
\* the payload bytes of the first n frames sent, in send order
TxPayload(cmdSet, sent, n) ==
    IF n = 0 \/ Len(sent) = 0 THEN <<>>
    ELSE TxPayload(cmdSet, sent, Min(n, Len(sent)) - 1)
         \o FramePayload(cmdSet, sent[Min(n, Len(sent))].frame)

\* C11: when a payload takes several frames and the card answers every frame but
\* the last with status AF and no data (and the last with OPERATION_OK), the first
\* frame carries the command byte, every later frame carries 0xAF, the payload
\* bytes of the frames in send order are the encoded payload, no further frame is
\* sent, and the caller gets PM3_SUCCESS.
C11_TxChainingFrames ==
    LET n == FirstNonAck(xr.cmdSet, xr.script, 1)
    IN  (/\ xr.op = "DesfireExchangeEx"
         /\ xr.cmdSet # "DCCISO"
         /\ n >= 2
         /\ n <= Len(xr.script)
         /\ ReplyStatus(xr.cmdSet, xr.script[n]) = MFDES_S_OPERATION_OK
         /\ Len(TxPayload(xr.cmdSet, xr.x.sent, n - 1)) < xr.datalen)
        => /\ xr.res = PM3_SUCCESS
           /\ Len(xr.x.sent) = n
           /\ FrameCommand(xr.cmdSet, xr.x.sent[1].frame) = MFDES_GET_VERSION
           /\ \A j \in 2..n :
                  FrameCommand(xr.cmdSet, xr.x.sent[j].frame) = MFDES_ADDITIONAL_FRAME
           /\ TxPayload(xr.cmdSet, xr.x.sent, n)
                  = DesfireSecureChannelEncode(ctx, MFDES_GET_VERSION, xr.data)

\* a native payload went out in two frames, the second one led by 0xAF
C11_Witness ==
    /\ xr.op = "DesfireExchangeEx"
    /\ xr.cmdSet = "DCCNative"
    /\ xr.datalen > DESFIRE_TX_FRAME_MAX_LEN
    /\ FirstNonAck(xr.cmdSet, xr.script, 1) = 2
    /\ Len(xr.script) = 2
    /\ ReplyStatus(xr.cmdSet, xr.script[2]) = MFDES_S_OPERATION_OK
    /\ Len(xr.x.sent) = 2
    /\ xr.x.sent[2].frame[1] = MFDES_ADDITIONAL_FRAME
    /\ xr.res = PM3_SUCCESS

\* C12: in the native and in the ISO-wrapped framing, a payload of exactly
\* DESFIRE_TX_FRAME_MAX_LEN bytes goes out whole in one frame (the card answering
\* OPERATION_OK), and a payload of one byte more goes out in exactly two frames
\* (the card answering AF without data, then OPERATION_OK).
C12_FrameSizeBoundary ==
    (xr.op = "DesfireExchangeEx" /\ xr.cmdSet # "DCCISO" /\ Len(xr.script) >= 1)
    => /\ (/\ xr.datalen = DESFIRE_TX_FRAME_MAX_LEN
           /\ ReplyStatus(xr.cmdSet, xr.script[1]) = MFDES_S_OPERATION_OK)
          => /\ Len(xr.x.sent) = 1
             /\ FramePayload(xr.cmdSet, xr.x.sent[1].frame) = xr.data
       /\ (/\ xr.datalen = DESFIRE_TX_FRAME_MAX_LEN + 1
           /\ Len(xr.script) >= 2
           /\ IsAck(xr.cmdSet, xr.script[1])
           /\ ReplyStatus(xr.cmdSet, xr.script[2]) = MFDES_S_OPERATION_OK)
          => /\ Len(xr.x.sent) = 2
             /\ TxPayload(xr.cmdSet, xr.x.sent, 2) = xr.data

RECURSIVE FirstNonAF(_, _, _)
\* the index, from k on, of the first reply whose status is not ADDITIONAL_FRAME
FirstNonAF(cmdSet, script, k) ==
    IF k > Len(script) \/ ReplyStatus(cmdSet, script[k]) # MFDES_ADDITIONAL_FRAME THEN k
    ELSE FirstNonAF(cmdSet, script, k + 1)

RECURSIVE RxData(_, _, _)
\* the data bytes of the first m replies, in arrival order
RxData(cmdSet, script, m) ==
    IF m = 0 THEN <<>>
    ELSE RxData(cmdSet, script, m - 1) \o ReplyData(cmdSet, script[m])

\* a continuation frame without payload
IsBareAF(cmdSet, frame) ==
    /\ FrameCommand(cmdSet, frame) = MFDES_ADDITIONAL_FRAME
    /\ FramePayload(cmdSet, frame) = <<>>
    /\ cmdSet = "DCCNative" => Len(frame) = 1

\* an exchange with RX chaining on and split off, a payload of one frame, and a
\* card that answers m frames: AF m - 1 times, then another status
RxChain(m) ==
    /\ xr.op = "DesfireExchangeEx"
    /\ xr.cmdSet # "DCCISO"
    /\ xr.enable_chaining
    /\ xr.splitbysize = 0
    /\ xr.datalen < DESFIRE_TX_FRAME_MAX_LEN - 1
    /\ m = FirstNonAF(xr.cmdSet, xr.script, 1)
    /\ m <= Len(xr.script)
    /\ ReplyStatus(xr.cmdSet, xr.script[m]) # -1

\* what the claim says of such an exchange
RxChainResult(m) ==
    /\ Len(xr.x.sent) = m
    /\ \A j \in 2..m : IsBareAF(xr.cmdSet, xr.x.sent[j].frame)
    /\ xr.x.resplen = Len(RxData(xr.cmdSet, xr.script, m))
    /\ MemRead(xr.x.resp, 0, Len(RxData(xr.cmdSet, xr.script, m)))
          = RxData(xr.cmdSet, xr.script, m)
    /\ xr.x.respcode = ReplyStatus(xr.cmdSet, xr.script[m])

\* C13: with RX chaining on and split off, the exchange sends one bare 0xAF frame
\* for each AF response (with or without data), stops at the first response with
\* another status, and returns the data of all frames in arrival order, their
\* total length as response length and the last status as response code.
C13_RxChainingConcatenates ==
    \A m \in 1..MaxScript : RxChain(m) => RxChainResult(m)

\* frame n of the exchange is the one that carries the last slice of the payload
LastSliceAt(n) ==
    /\ n <= Len(xr.x.sent)
    /\ Len(TxPayload(xr.cmdSet, xr.x.sent, n)) = xr.datalen
    /\ n > 1 => Len(TxPayload(xr.cmdSet, xr.x.sent, n - 1)) < xr.datalen

\* an exchange without RX chaining whose last payload frame (frame n) the card
\* answers with status ADDITIONAL_FRAME
NoRxChain(n) ==
    /\ xr.op = "DesfireExchangeEx"
    /\ xr.cmdSet # "DCCISO"
    /\ ~ xr.enable_chaining
    /\ LastSliceAt(n)
    /\ n <= Len(xr.script)
    /\ ReplyStatus(xr.cmdSet, xr.script[n]) = MFDES_ADDITIONAL_FRAME

\* that answer is what the caller gets, and no frame follows the payload
NoRxChainResult(n) ==
    /\ Len(xr.x.sent) = n
    /\ xr.x.res = PM3_SUCCESS
    /\ xr.x.respcode = MFDES_ADDITIONAL_FRAME
    /\ xr.x.resplen = Len(ReplyData(xr.cmdSet, xr.script[n]))
    /\ xr.splitbysize = 0
         => MemRead(xr.x.resp, 0, xr.x.resplen) = ReplyData(xr.cmdSet, xr.script[n])

\* C14: with RX chaining disabled only the frames that carry the payload are sent:
\* the ADDITIONAL_FRAME status that answers the last payload frame, with or
\* without data, goes to the caller as response code with that frame's data, and
\* no 0xAF continuation is sent.
C14_NoContinuationWithoutRxChaining ==
    \A n \in 1..MaxScript : NoRxChain(n) => NoRxChainResult(n)

\* an exchange with split-by-size and RX chaining, a payload of one frame, plain
\* communication without a secure channel (decoding is the identity), and a card
\* that answers m frames: AF m - 1 times, then a status the transport accepts
SplitChain(m) ==
    /\ xr.op = "DesfireExchangeEx"
    /\ xr.cmdSet # "DCCISO"
    /\ xr.enable_chaining
    /\ xr.splitbysize # 0
    /\ ctx.secureChannel = "DACNone"
    /\ ctx.commMode = "DCMPlain"
    /\ xr.datalen < DESFIRE_TX_FRAME_MAX_LEN - 1
    /\ m = FirstNonAF(xr.cmdSet, xr.script, 1)
    /\ m <= Len(xr.script)
    /\ ReplyStatus(xr.cmdSet, xr.script[m]) \in OkStatuses \ {MFDES_S_ADDITIONAL_FRAME}

\* slot j (from 1) of the buffer DesfireExchangeEx returned holds frame j
SlotHoldsFrame(j) ==
    LET data == ReplyData(xr.cmdSet, xr.script[j])
        off == (j - 1) * xr.splitbysize
    IN  /\ MemGet(xr.resp, off) = Len(data)
        /\ MemRead(xr.resp, off + 1, Len(data)) = data

\* C15: with split-by-size R and a decoding that is the identity, the buffer
\* DesfireExchangeEx returns holds one [length, data] slot per frame received, in
\* arrival order, each with the frame's own length and data, and the count
\* returned is the number of frames received.
C15_SplitSlotsPerFrame ==
    \A m \in 1..MaxScript :
        SplitChain(m) => /\ xr.res = PM3_SUCCESS
                         /\ xr.resplen = m
                         /\ \A j \in 1..m : SlotHoldsFrame(j)

\* C15 as it holds: when every frame received carries data, the buffer holds one
\* [length, data] slot per frame received, in arrival order, each with the frame's
\* own length and data, and the count returned is the number of frames received.
C15_SplitSlotsPerDataFrame ==
    \A m \in 1..MaxScript :
        (/\ SplitChain(m)
         /\ \A j \in 1..m : ReplyData(xr.cmdSet, xr.script[j]) # <<>>)
        => /\ xr.res = PM3_SUCCESS
           /\ xr.resplen = m
           /\ \A j \in 1..m : SlotHoldsFrame(j)

\* three frames with data came back in three slots
C15_Witness ==
    /\ SplitChain(3)
    /\ ReplyData(xr.cmdSet, xr.script[1]) = <<8, 9>>
    /\ ReplyData(xr.cmdSet, xr.script[2]) = <<7>>
    /\ ReplyData(xr.cmdSet, xr.script[3]) = <<7>>
    /\ xr.resplen = 3
    /\ MemRead(xr.resp, 0, 3 * xr.splitbysize) = <<2, 8, 9, 1, 7, 0, 1, 7, 0>>

\* C16: a transport send with field activation requested drops the field, then
\* sleeps 50 ms, then exchanges the bytes with the card, in that order; a send
\* without activation does neither and only exchanges the bytes.
C16_FieldDropBeforeExchange ==
    tr.op # "none"
    => tr.r.events = IF tr.activate_field THEN <<"DropField", "msleep50", "exchange">>
                     ELSE <<"exchange">>

\* an APDU went out with activation: the field was dropped first, the exchange last
C16_Witness ==
    /\ tr.op = "DESFIRESendApduEx"
    /\ tr.activate_field
    /\ tr.r.res = PM3_SUCCESS
    /\ tr.r.events[1] = "DropField"
    /\ tr.r.events[Len(tr.r.events)] = "exchange"

\* C17: after a successful select by DesfireSelectAID, DesfireSelectAIDHex or
\* DesfireSelectAIDHexNoFieldOn, appSelected is false exactly when the 24-bit AID
\* sent on the wire is 0x000000.
C17_AppSelectedIffWireAidNonZero ==
    (/\ last.op \in {"SelectAID", "SelectAIDHex", "SelectAIDHexNoFieldOn"}
     /\ last.res = PM3_SUCCESS)
    => (ctx.appSelected <=> last.arg[1] # 0)

\* a step that runs DesfireAuthenticate for the EV2 channel
EV2AuthenticateStep ==
    /\ last.op = "none"
    /\ last'.op = "Authenticate"
    /\ last'.arg[1] = "DACEV2"

C19_AuthFirstFrame ==
    (last.op = "Authenticate" /\ ctx.cmdSet # "DCCISO" /\ last.sent)
    => CASE last.arg[1] = "DACd40" -> last.arg[2] = 10
         [] last.arg[1] = "DACEV1" ->
                last.arg[2] = IF ctx.keyType = "T_AES" THEN 170 ELSE 26
         [] last.arg[1] = "DACEV2" ->
                IF last.preAuth
                THEN last.arg[2] = 119 /\ last.arg[3] = <<ctx.keyNum>>
                ELSE last.arg[2] = 113 /\ last.arg[3] = <<ctx.keyNum, 0>>
         [] OTHER -> FALSE

\* a non-first EV2 run in the wrapped framing began with 0x77 and succeeded
C19_Witness ==
    /\ last.op = "Authenticate"
    /\ ctx.cmdSet = "DCCNativeISO"
    /\ last.arg[1] = "DACEV2"
    /\ last.preAuth
    /\ last.arg[2] = 119
    /\ last.arg[3] = <<ctx.keyNum>>
    /\ last.res = PM3_SUCCESS

\* a D40 / EV1 run in the native or the wrapped framing whose first frame the
\* card answered with status ADDITIONAL_FRAME and len data bytes
EV1FirstAnswer(len) ==
    /\ last.op = "Authenticate"
    /\ last.arg[1] \in {"DACd40", "DACEV1"}
    /\ ctx.cmdSet # "DCCISO"
    /\ last.arg[4] = MFDES_ADDITIONAL_FRAME
    /\ last.arg[5] = len

\* the run went on to its second frame
EV1Continued == last.arg[6] >= 2 /\ last.res \notin 1..4

C21_EV2KeysFromSentRndA ==
    (last.op = "Authenticate" /\ last.arg[1] = "DACEV2" /\ last.res = PM3_SUCCESS)
    => /\ MemRead(ctx.sessionKeyEnc, 0, CRYPTO_AES_BLOCK_SIZE)
            = DesfireGenSessionKeyEV2(SubSeq(ctx.key, 1, 16), RndA0, CardRnd, TRUE)
       /\ MemRead(ctx.sessionKeyMAC, 0, CRYPTO_AES_BLOCK_SIZE)
            = DesfireGenSessionKeyEV2(SubSeq(ctx.key, 1, 16), RndA0, CardRnd, FALSE)


\* C22: after a successful D40 or EV1 authentication with a DES key, bytes 0..7 of
\* the session key in the context equal bytes 8..15, for sessionKeyEnc and for
\* sessionKeyMAC.
C22_DESSessionKeyHalvesEqual ==
    (/\ last.op = "Authenticate" /\ last.res = PM3_SUCCESS
     /\ last.arg[1] \in {"DACd40", "DACEV1"} /\ ctx.keyType = "T_DES")
    => /\ MemRead(ctx.sessionKeyEnc, 0, 8) = MemRead(ctx.sessionKeyEnc, 8, 8)
       /\ MemRead(ctx.sessionKeyMAC, 0, 8) = MemRead(ctx.sessionKeyMAC, 8, 8)

\* an ISO authentication run ended in the state: what it exchanged
ISORun == last.op = "Authenticate" /\ ctx.cmdSet = "DCCISO" /\ last.arg[1] # "DACEV2"

ISORndLen == DesfireGetRndLenForKey(ctx.keyType)

\* the card's INTERNAL AUTHENTICATE cryptogram (data) decrypted under the IV the
\* host's cryptogram over hostrnd || piccrnd left
ISODecrypted(piccrnd, data) ==
    DesfireCryptoEncDec(
        DesfireCryptoEncDec(DesfireClearIV(ctx),
                            MemRead(RndA0, 0, ISORndLen) \o piccrnd, TRUE).ctx,
        data, FALSE).out

ISOStepsInOrder ==
    ISORun =>
        LET t == last.arg[7]
            ok(i) == t[i].sw = 36864
            ok1 == ok(1) /\ Len(t[1].data) = ISORndLen
            ok3 == ok(3) /\ Len(t[3].data) = ISORndLen * 2
        IN  /\ Len(t) \in 1..3
            /\ \A i \in 1..Len(t) :
                   t[i].ins = <<ISO7816_GET_CHALLENGE, ISO7816_EXTERNAL_AUTHENTICATION,
                                ISO7816_INTERNAL_AUTHENTICATION>>[i]
            /\ Len(t) >= 2 <=> ok1
            /\ Len(t) = 3 <=> (ok1 /\ ok(2))
            /\ last.res = 301 <=> ~ ok(1)
            /\ last.res = 302 <=> (ok(1) /\ ~ ok1)
            /\ last.res = 304 <=> (ok1 /\ ~ ok(2))
            /\ last.res = 305 <=> (Len(t) = 3 /\ ~ ok(3))
            /\ last.res = 306 <=> (Len(t) = 3 /\ ok(3) /\ ~ ok3)
            /\ last.res = 308 <=>
                   (/\ Len(t) = 3 /\ ok3
                    /\ MemRead(ISODecrypted(t[1].data, t[3].data), ISORndLen, ISORndLen)
                           # MemRead(hostrnd2, 0, ISORndLen))
            /\ last.res \in {PM3_SUCCESS, 301, 302, 304, 305, 306, 308}
            /\ last.res = PM3_SUCCESS =>
                   /\ ctx.secureChannel = last.arg[1]
                   /\ MemRead(ctx.sessionKeyEnc, 0, desfire_get_key_length(ctx.keyType))
                          = DesfireGenSessionKeyEV1(RndA0,
                                ISODecrypted(t[1].data, t[3].data), ctx.keyType)
                   /\ MemRead(ctx.sessionKeyMAC, 0, desfire_get_key_length(ctx.keyType))
                          = MemRead(ctx.sessionKeyEnc, 0,
                                    desfire_get_key_length(ctx.keyType))

ISOFailureKeepsSession ==
    (ISORun' /\ last'.res # PM3_SUCCESS)
    => /\ ctx'.secureChannel = ctx.secureChannel
       /\ ctx'.sessionKeyEnc = ctx.sessionKeyEnc
       /\ ctx'.sessionKeyMAC = ctx.sessionKeyMAC

SelectAuthRun == last.op = "SelectAndAuthenticate"

\* C24: DesfireSelectAndAuthenticateEx returns 200 exactly when the select fails,
\* and DesfireAuthenticate is then not run; after a select that succeeded it
\* returns the authentication's reason when the authentication fails, 201 when
\* the authentication reports success and the session is not authenticated, and
\* success otherwise, or at once when noauth is set.
C24_SelectAndAuthenticateResult ==
    SelectAuthRun =>
        LET noauth == last.arg[2]
            selres == last.arg[3]
            authRun == last.arg[4]
            authres == last.arg[5]
            authenticated == last.arg[7]
        IN  /\ last.res = 200 <=> selres # PM3_SUCCESS
            /\ selres # PM3_SUCCESS => (~ authRun /\ last.arg[6] = 0)
            /\ (selres = PM3_SUCCESS /\ noauth) =>
                   (last.res = PM3_SUCCESS /\ ~ authRun /\ last.arg[6] = 0)
            /\ (selres = PM3_SUCCESS /\ ~ noauth) =>
                   /\ authRun
                   /\ last.res = IF authres # PM3_SUCCESS THEN authres
                                 ELSE IF authenticated THEN PM3_SUCCESS ELSE 201

C24_Witness ==
    /\ SelectAuthRun /\ last.res = 201 /\ last.arg[3] = PM3_SUCCESS /\ last.arg[4]
    /\ last.arg[5] = PM3_SUCCESS /\ ~ last.arg[7]

(***************************************************************************)
(* The key-change cryptogram                                               *)
(***************************************************************************)
KeyChanged == kr.op = "DesfireChangeKey"

\* a key as the cryptogram carries it: its bytes by the algorithm's key length, a
\* DES key twice, the version in the low bits of a DES-family key
CarriedKey(keytype, key, ver) ==
    LET k == IF keytype = "T_DES" THEN SubSeq(key, 1, 8) \o SubSeq(key, 1, 8)
             ELSE SubSeq(key, 1, desfire_get_key_length(keytype))
    IN  IF keytype # "T_AES" /\ ver < 256 THEN DesfireDESKeySetVersion(k, keytype, ver)
        ELSE k

\* the old key over the length of the new one (zeros where it is shorter)
CarriedOldKey(keytype, key, n) ==
    LET k == IF keytype = "T_DES" THEN SubSeq(key, 1, 8) \o SubSeq(key, 1, 8)
             ELSE SubSeq(key, 1, desfire_get_key_length(keytype))
    IN  [i \in 1..n |-> IF i <= Len(k) THEN k[i] ELSE 0]

\* the key material at the head of the plaintext, with the AES key version
KeyChangeHead ==
    LET nk == CarriedKey(kr.newkeytype, kr.newkey, kr.newkeyver)
    IN  (IF kr.newkeynum = ctx.keyNum THEN nk
         ELSE SeqXor(nk, CarriedOldKey(kr.oldkeytype, kr.oldkey, Len(nk))))
        \o (IF kr.newkeytype = "T_AES" THEN <<kr.newkeyver % 256>> ELSE <<>>)

KeyChangeCrcLen == IF kr.secureChannel = "DACd40" THEN 2 ELSE 4

\* the first CRC field of the plaintext
KeyChangeFirstCrc ==
    SubSeq(kr.cdata, Len(KeyChangeHead) + 1, Len(KeyChangeHead) + KeyChangeCrcLen)

C26_FirstCrcCoversCommand ==
    (KeyChanged /\ kr.secureChannel # "DACNone") =>
        LET covered == <<MFDES_CHANGE_KEY,
                         ChangeKeyNo(kr.change_master_key, kr.newkeynum, kr.newkeytype)>>
                       \o KeyChangeHead
        IN  KeyChangeFirstCrc = IF kr.secureChannel = "DACd40" THEN iso14443a_crc(covered)
                                ELSE desfire_crc32(covered)

\* C26 as the code has it: the CRC16 of D40 covers the plaintext alone, the CRC32
\* of EV1 and EV2 covers cmd || keyNoByte || plaintext.
C26_FirstCrcCoverage ==
    (KeyChanged /\ kr.secureChannel # "DACNone") =>
        KeyChangeFirstCrc =
            IF kr.secureChannel = "DACd40" THEN iso14443a_crc(KeyChangeHead)
            ELSE desfire_crc32(<<MFDES_CHANGE_KEY,
                                 ChangeKeyNo(kr.change_master_key, kr.newkeynum,
                                             kr.newkeytype)>> \o KeyChangeHead)

C26_Witness ==
    /\ KeyChanged /\ kr.secureChannel = "DACd40" /\ kr.newkeytype = "T_AES"
    /\ kr.newkeynum = ctx.keyNum /\ kr.change_master_key

\* C27: the key-number byte DesfireChangeKey sends has the key number in its low
\* six bits; its bits 7-6 are the type code of the new key's algorithm when
\* change_master_key is set, and zero otherwise.
C27_KeyNumberByte ==
    (KeyChanged /\ Len(kr.sent) > 0) =>
        /\ kr.sent[1] % 64 = kr.newkeynum % 64
        /\ kr.sent[1] \div 64 = IF kr.change_master_key
                                THEN DesfireKeyAlgoToType(kr.newkeytype) ELSE 0

C27_Witness ==
    /\ KeyChanged /\ Len(kr.sent) > 0 /\ kr.change_master_key /\ kr.newkeynum = 77
    /\ kr.newkeytype = "T_AES" /\ kr.sent[1] = 141

(***************************************************************************)
(* The file-settings decoder                                               *)
(***************************************************************************)
Filled == fr.op = "DesfireFillFileSettings"

\* the record arrived whole
FilledWhole == Filled /\ fr.cut = 0

ValueFileExample ==
    /\ Filled /\ fr.datalen = 17
    /\ SubSeq(fr.data, 1, 17) = <<2, 3, 238, 238, 16, 0, 0, 0, 0, 0, 0, 0, 16, 0, 0, 0, 0>>

\* C28: the 17 bytes 02 03 EE EE 10 00 00 00 00 00 00 00 10 00 00 00 00 decode to
\* type Value, comm mode Enciphered, access rights 0xEEEE, lower limit 0, upper
\* limit 16, current value 16, limited credit 0.
C28_ValueFileExampleDecoded ==
    ValueFileExample =>
        /\ fr.fs.fileType = 2 /\ fr.fs.commMode = "DCMEncrypted"
        /\ fr.fs.rawAccessRights = 61166
        /\ fr.fs.lowerLimit = 0 /\ fr.fs.upperLimit = 16 /\ fr.fs.value = 16
        /\ fr.fs.limitedCredit = 0

\* C28 as the code has it: the same bytes decode to lower limit 16 and upper
\* limit 0, the other fields as stated.
C28_ValueFileExampleLimits ==
    ValueFileExample =>
        /\ fr.fs.fileType = 2 /\ fr.fs.commMode = "DCMEncrypted"
        /\ fr.fs.rawAccessRights = 61166
        /\ fr.fs.lowerLimit = 16 /\ fr.fs.upperLimit = 0 /\ fr.fs.value = 16
        /\ fr.fs.limitedCredit = 0

C28_Witness == ValueFileExample /\ fr.stale = 165

\* C29: of a whole record the file type is byte 0, the comm mode bits 0-1 and the
\* additional-rights flag bit 7 of byte 1, the access rights the little-endian
\* 16-bit value of bytes 2-3 (change, read/write, write, read from the low nibble
\* up), and the body by type: size LE24 (Standard, Backup); lower, upper, current
\* LE32 in that order, then the flags byte (Value); record size, max records,
\* current records LE24 in that order (Linear, Cyclic); key type, then key
\* version (TransactionMAC).
C29_RecordFields ==
    FilledWhole =>
        LET fs == fr.fs
            n24(i) == fr.n[i] % 16777216
        IN  /\ fs.fileType = fr.type
            /\ fs.fileCommMode = fr.option % 4
            /\ fs.commMode = DesfireFileCommModeToCommMode(fr.option % 4)
            /\ fs.additionalAccessRightsEn = (fr.option >= 128)
            /\ fs.rawAccessRights = fr.data[3] + 256 * fr.data[4]
            /\ fs.rawAccessRights = fr.access[4] + 16 * fr.access[3]
                                    + 256 * fr.access[2] + 4096 * fr.access[1]
            /\ <<fs.rAccess, fs.wAccess, fs.rwAccess, fs.chAccess>> = fr.access
            /\ fr.type \in {0, 1} => fs.fileSize = n24(1)
            /\ fr.type = 2 =>
                   /\ fs.lowerLimit = fr.n[1] /\ fs.upperLimit = fr.n[2]
                   /\ fs.value = fr.n[3] /\ fs.limitedCredit = fr.flags
            /\ fr.type \in {3, 4} =>
                   /\ fs.recordSize = n24(1) /\ fs.maxRecordCount = n24(2)
                   /\ fs.curRecordCount = n24(3)
            /\ fr.type = 5 =>
                   (fs.keyType = fr.n[1] % 256 /\ fs.keyVersion = fr.n[2] % 256)

C29_Witness ==
    /\ FilledWhole /\ fr.type = 4 /\ fr.n = <<16909060, 16, 0>> /\ fr.option = 129
    /\ fr.access = <<1, 2, 3, 4>> /\ fr.fs.recordSize = 131844
    /\ fr.fs.rawAccessRights = 4660

\* C30: of a whole record whose option byte has bit 7 set and whose body is
\* followed by count and count little-endian 16-bit rights, the decoder yields
\* additionalAccessRightsLength = count and the rights in their order, for every
\* file type and every count.
C30_AdditionalRightsDecoded ==
    (FilledWhole /\ fr.option >= 128) =>
        /\ fr.fs.additionalAccessRightsLength = Len(fr.rights)
        /\ fr.fs.additionalAccessRights = fr.rights

(***************************************************************************)
(* The AID conversions                                                     *)
(***************************************************************************)
\* C31: a 24-bit number comes back from its three bytes, three bytes come back
\* from their number, and byte 0 is the least significant one.
C31_AIDRoundTrip ==
    /\ (ar.op = "DesfireAIDUintToByte" /\ ar.aid < 16777216) =>
           /\ ar.back = ar.aid
           /\ ar.data[1] = ar.aid % 256 /\ ar.data[3] = ar.aid \div 65536
    /\ ar.op = "DesfireAIDByteToUint" =>
           /\ ar.back = ar.data
           /\ ar.aid % 256 = ar.data[1] /\ ar.aid \div 65536 = ar.data[3]

C31_Witness ==
    /\ ar.op = "DesfireAIDUintToByte" /\ ar.aid = 8388864 /\ ar.data = <<0, 1, 128>>
    /\ ar.back = 8388864

(***************************************************************************)
(* The order of the steps of a D40 / EV1 / EV2 authentication              *)
(***************************************************************************)
\* a run of DesfireAuthenticateEV1 or DesfireAuthenticateEV2 ended in the state
NativeAuthRun ==
    /\ last.op = "Authenticate" /\ last.arg[1] \in {"DACd40", "DACEV1", "DACEV2"}
    /\ ~ (ctx.cmdSet = "DCCISO" /\ last.arg[1] # "DACEV2")

\* the length of the card's nonce in the run
NativeAuthRndLen ==
    IF last.arg[1] = "DACEV2" THEN CRYPTO_AES_BLOCK_SIZE ELSE EV1ExpectedLen(ctx.keyType)

\* frame f of the trace carries the host's cryptogram
IsCryptogramFrame(f) == f.cmd = MFDES_ADDITIONAL_FRAME /\ Len(f.payload) > 0

\* RndA' as the card's last answer (data) carries it, encRndB being the answer
\* before it
CardRndA(encRndB, data) ==
    IF last.arg[1] = "DACEV2"
    THEN MemRead(aes_decode(Zeros(16), SubSeq(ctx.key, 1, 16), data),
                 IF last.preAuth THEN 0 ELSE 4, 16)
    ELSE EV1Part4(ctx.keyType, last.arg[1], AuthKeyData(ctx.keyType, ctx.key),
                  EV1Part3(ctx.keyType, last.arg[1], AuthKeyData(ctx.keyType, ctx.key),
                           encRndB, NativeAuthRndLen).iv,
                  data, NativeAuthRndLen)

AuthStepsInOrder ==
    NativeAuthRun =>
        LET t == last.arg[8]
            n == Len(t)
        IN  /\ \A i \in 1..n :
                   IsCryptogramFrame(t[i]) =>
                       /\ i > 1 /\ t[i - 1].status = MFDES_ADDITIONAL_FRAME
                       /\ Len(t[i - 1].data) = NativeAuthRndLen
            /\ last.res = PM3_SUCCESS =>
                   /\ n >= 2 /\ IsCryptogramFrame(t[n])
                   /\ t[n].status = MFDES_S_OPERATION_OK
                   /\ Len(t[n].data) >= NativeAuthRndLen
                   /\ CardRndA(t[n - 1].data, t[n].data)
                          = rol(MemRead(RndA0, 0, NativeAuthRndLen))
                   /\ ctx.secureChannel = last.arg[1]

ChannelSetBySuccessOnly ==
    (NativeAuthRun' /\ last'.res # PM3_SUCCESS)
    => ctx'.secureChannel \in {"DACNone", ctx.secureChannel}

\* C32: in a D40 / EV1 / EV2 authentication run the 0xAF frame that carries
\* E(RndA || RndB') goes out only after an answer with status ADDITIONAL_FRAME and
\* the expected length; the run ends with the session authenticated only after
\* an answer with status OPERATION_OK to that frame whose RndA' is RndA rotated
\* left by one byte; a run that fails does not set the secure channel.
C32_AuthStepsInOrder == [] AuthStepsInOrder /\ [][ChannelSetBySuccessOnly]_vars

C32_Witness ==
    /\ NativeAuthRun /\ last.res = PM3_SUCCESS /\ last.arg[1] = "DACEV1"
    /\ ctx.keyType = "T_3K3DES" /\ Len(last.arg[8]) = 2

(***************************************************************************)
(* DesfireAuthenticate without an authentication method                    *)
(***************************************************************************)
NoMethodStep == last'.op = "Authenticate" /\ last'.arg[1] = "DACNone"

\* C33: DesfireAuthenticate called with the secure channel None returns 100, sends
\* no frame and leaves the session as it was, in every command set.
C33_NoMethodReturns100 ==
    [][NoMethodStep => (last'.res = 100 /\ last'.arg[6] = 0 /\ ctx' = ctx)]_vars

(***************************************************************************)
(* The result of a typed command                                           *)
(***************************************************************************)
\* the exchange of the command succeeded, the card's status is OPERATION_OK and
\* the response has the length asked for
CommandAccepted ==
    /\ xr.e.res = PM3_SUCCESS
    /\ xr.e.respcode = MFDES_S_OPERATION_OK
    /\ xr.checklength >= 0 => xr.e.resplen = xr.checklength

\* C34: a typed command returns success exactly when its exchange succeeded, the
\* final card status is OPERATION_OK and, for checklength >= 0, the response length
\* equals checklength; on every failure the caller's response length is 0 and
\* nothing is written to the caller's response buffer.
C34_TypedCommandResult ==
    xr.op = "DesfireCommandEx" =>
        /\ (xr.res = PM3_SUCCESS) <=> CommandAccepted
        /\ xr.res # PM3_SUCCESS => (xr.resplen = 0 /\ xr.resp = <<>>)
        /\ xr.res = PM3_SUCCESS => xr.resplen = xr.e.resplen

C34_Witness ==
    /\ xr.op = "DesfireCommandEx" /\ xr.res = PM3_EAPDU_FAIL
    /\ xr.e.res = PM3_SUCCESS /\ xr.e.respcode = MFDES_S_OPERATION_OK
    /\ xr.checklength = 2 /\ xr.e.resplen = 1 /\ xr.resplen = 0

(***************************************************************************)
(* DesfireChangeKey and the session                                        *)
(***************************************************************************)
\* the step is a call of DesfireChangeKey
ChangeKeyStep == last'.op = "ChangeKey"

\* secure channel, session keys, TI and key number are as the exchange of the
\* command left them
SessionKept == SessionOf(ctx') = last'.arg[2]

\* the exchange changes the session only by clearing it
ExchangeKeepsOrClears ==
    last'.arg[2] \in {SessionOf(ctx), SessionOf(DesfireClearSession(ctx))}

\* C35: DesfireChangeKey clears the session exactly when newkeynum is the key number
\* of the context, whatever the result of the command; when the key numbers
\* differ the secure channel, the session keys, TI and the key number are what
\* the exchange of the command left.
C35_ChangeKeyClearsOwnSessionOnly ==
    [][ChangeKeyStep =>
          /\ ExchangeKeepsOrClears
          /\ IF last'.arg[1] THEN SessionCleared(ctx') /\ ctx'.keyNum = ctx.keyNum
             ELSE SessionKept]_vars

C35_Witness ==
    /\ last.op = "ChangeKey" /\ last.preAuth /\ last.arg[1]
    /\ last.res # PM3_SUCCESS /\ last.sent /\ SessionCleared(ctx)

(***************************************************************************)
(* DesfireSelectAndAuthenticateEx and the command set                      *)
(***************************************************************************)
SelectAuthStep == last'.op = "SelectAndAuthenticate"

\* C36: DesfireSelectAndAuthenticateEx leaves cmdSet as it was at entry on every
\* return path, the failed select (200) of a context in the ISO command set
\* included.
C36_SelectAuthKeepsCommandSet == [][SelectAuthStep => ctx'.cmdSet = ctx.cmdSet]_vars

(***************************************************************************)
(* The RF field within one exchange                                        *)
(***************************************************************************)
\* frame i of the exchange was sent through a transport call that drops the
\* field first (activate_field of DESFIRESendRaw / DESFIRESendApdu)
DropsFieldBefore(i) == xr.x.sent[i].activate

\* C37: within one exchange the RF field is dropped at most once and only before
\* the first frame: no frame after the first of a TX chain or an RX chain is
\* preceded by DropField, also when the exchange was started with field
\* activation.
C37_FieldDroppedOnlyBeforeFirstFrame ==
    xr.op = "DesfireExchangeEx" =>
        \A i \in 2..Len(xr.x.sent) : ~ DropsFieldBefore(i)

(***************************************************************************)
(* Termination of the exchange loops                                       *)
(***************************************************************************)
\* a call that has started returns
ExchangeTerminates == (lr.pc = "tx") ~> (lr.pc = "done")

\* the TX loop is not entered again with every byte sent and acknowledged
TxLoopEndsWhenSent ==
    ~ (lr.pc = "tx" /\ lr.frames > 0 /\ lr.sentdatalen = lr.total)

\* C38: every call of DesfireExchangeNative and DesfireExchangeISONative returns,
\* given that the card sooner or later answers with a status other than
\* ADDITIONAL_FRAME or the transport fails; the TX loop ends once all payload
\* bytes have been sent and acknowledged.
C38_ExchangeLoopsTerminate == ExchangeTerminates /\ [] TxLoopEndsWhenSent

(***************************************************************************)
(* The response buffer during reassembly                                   *)
(***************************************************************************)
\* C39: while a chained response is put together no copy writes past the buffer
\* the caller passed: the write offset plus the frame's data length is at most
\* the size of the buffer of DesfireExchangeEx, whatever the card answers.
C39_ReassemblyWithinBuffer ==
    xr.op = "DesfireExchangeEx" => xr.x.maxext <= ExchangeBufferSize

(***************************************************************************)
(* The length DESFIRESendRaw reports                                       *)
(***************************************************************************)
\* a <= b for two uint32_t, each held as the signed 32-bit number with the same
\* bit pattern (the negative numbers are the values from 2^31 up)
Uint32LessEq(a, b) == IF (a < 0) = (b < 0) THEN a <= b ELSE b < 0

\* the transport returned raw bytes to DESFIRESendRaw, the status byte among them
RawAnswered ==
    tr.op = "DESFIRESendRaw" /\ tr.reply.res = PM3_SUCCESS /\ Len(tr.reply.raw) >= 1

\* C40: the data length DESFIRESendRaw reports is never greater than the number of
\* bytes the transport returned: for a raw response of n >= 1 bytes it is n - 3
\* and does not wrap below zero when n is 1 or 2.
C40_ReportedLengthWithinRaw ==
    RawAnswered => Uint32LessEq(tr.r.result_len, Len(tr.reply.raw))
====
